---- MODULE Spec2Model ----
(***************************************************************************)
(* Verification model of the BambooTracker synthesizer core:               *)
(*   - InstrumentsManager (the resource pool manager), specifications      *)
(*     Spec and SpecFM                                                     *)
(*   - OPNAController (the channel tick controller), specification SpecCtl *)
(* Each definition is a translation of the source place named in           *)
(* MODEL_MAP.json.                                                         *)
(***************************************************************************)
EXTENDS Integers, Sequences, FiniteSets, TLC

(***************************************************************************)
(* Bounds of the model.  The program keeps 128 instrument entries and 128  *)
(* slots in every pool, and five FM operator types (All, Op1..Op4).        *)
(***************************************************************************)
NumInsts == 4
PoolSize == 3
NumOpTypes == 2
MaxOps == 3
MaxOpsFM == 2
MaxOpsMany == 2
MaxEdits == 1
MaxSetupNum == 1

InstNums == 0..(NumInsts - 1)
Slots == 0..(PoolSize - 1)

Min(S) == CHOOSE x \in S : \A y \in S : x <= y

Range(s) == {s[i] : i \in DOMAIN s}

(***************************************************************************)
(* Pools.  Of the pools of each sound source the model keeps one per       *)
(* shape: a pool whose reference is always enabled (envFM, wfADPCM), a     *)
(* pool with one optional reference per instrument (wfSSG, envADPCM) and   *)
(* the pool referenced once per FM operator type (arpFM).  The pools left  *)
(* out (lfoFM, opSeqFM, ptFM, tnSSG, envSSG, arpSSG, ptSSG, arpADPCM,      *)
(* ptADPCM) repeat the code of a pool that is kept.                        *)
(***************************************************************************)
fmOpTypesAll == <<"All", "Op1", "Op2", "Op3", "Op4">>

fmOpTypes_ == SubSeq(fmOpTypesAll, 1, NumOpTypes)

SoundSources == {"FM", "SSG", "ADPCM"}

PoolsOf(source) ==
    CASE source = "FM" -> <<"envFM", "arpFM">>
      [] source = "SSG" -> <<"wfSSG">>
      [] source = "ADPCM" -> <<"wfADPCM", "envADPCM">>
      [] OTHER -> <<>>

Pools == UNION {Range(PoolsOf(s)) : s \in SoundSources}

\* FM envelope and ADPCM waveform have no enabled flag: always referenced
AlwaysEnabled(pool) == pool \in {"envFM", "wfADPCM"}

\* arpeggio (and pitch) of an FM instrument: one reference per operator type
PerOperatorType(pool) == pool = "arpFM"

FieldsOfPool(pool) ==
    IF PerOperatorType(pool)
    THEN [i \in 1..NumOpTypes |-> [pool |-> pool, op |-> fmOpTypes_[i]]]
    ELSE <<[pool |-> pool, op |-> "None"]>>

RECURSIVE ConcatFields(_)
ConcatFields(ps) ==
    IF ps = <<>> THEN <<>> ELSE FieldsOfPool(Head(ps)) \o ConcatFields(Tail(ps))

\* the references an instrument of a sound source holds, in the code's order
FieldSeq(source) == ConcatFields(PoolsOf(source))

Fields(source) == Range(FieldSeq(source))

\* the operator types an instrument keeps an envelope-reset flag for
EnvResetTypes(source) == IF source = "FM" THEN fmOpTypes_ ELSE <<>>

(***************************************************************************)
(* Slot payloads.  An FM envelope is its algorithm, feedback and the       *)
(* parameters of its four operators; every other payload (macro sequence   *)
(* with loops and release, LFO, ADPCM waveform) is one abstract value,     *)
(* 0 being the factory default.                                            *)
(***************************************************************************)
Vals == 0..1

DEF_ENV == [al |-> 0, fb |-> 0, op |-> <<0, 0, 0, 0>>]

Default(pool) == IF pool = "envFM" THEN DEF_ENV ELSE 0

EnvParams == {"AL", "FB", "OP1", "OP2", "OP3", "OP4"}

ParamsOf(pool) == IF pool = "envFM" THEN EnvParams ELSE {"VAL"}

\* EnvelopeFM::setParameterValue and the sequence/LFO/waveform setters
setParameterValue(pool, val, param, v) ==
    IF pool # "envFM" THEN v
    ELSE CASE param = "AL" -> [val EXCEPT !.al = v]
           [] param = "FB" -> [val EXCEPT !.fb = v]
           [] param = "OP1" -> [val EXCEPT !.op[1] = v]
           [] param = "OP2" -> [val EXCEPT !.op[2] = v]
           [] param = "OP3" -> [val EXCEPT !.op[3] = v]
           [] param = "OP4" -> [val EXCEPT !.op[4] = v]
           [] OTHER -> val

\* EnvelopeFM::isEdited; the other kinds' isEdited compare with the default too
isEdited(pool, val) ==
    IF pool = "envFM"
    THEN val.al # DEF_ENV.al \/ val.fb # DEF_ENV.fb
         \/ \E i \in 1..4 : val.op[i] # DEF_ENV.op[i]
    ELSE val # Default(pool)

\* operator==(const EnvelopeFM&, const EnvelopeFM&): the loop over the four
\* operators compares op_[0] on every round
EnvelopeFMEq(a, b) ==
    IF a.al # b.al \/ a.fb # b.fb THEN FALSE
    ELSE \A i \in 1..4 : a.op[1] = b.op[1]

\* the comparison equalProperties* applies to two slot payloads of a pool
PropertyEq(pool, a, b) == IF pool = "envFM" THEN EnvelopeFMEq(a, b) ELSE a = b

\* value equality of two payloads
ValueEq(pool, a, b) == a = b

(***************************************************************************)
(* State of the InstrumentsManager.                                        *)
(***************************************************************************)
VARIABLES
    insts,              \* insts_: instrument number -> instrument or NoInst
    pools,              \* envFM_, arpFM_, ...: pool -> slot -> [users, val]
    regardingUnedited,  \* regardingUnedited_
    fault,              \* "none", or how an out-of-range slot access ended
    last,               \* the operation performed last, its arguments and result
    used,               \* number of operations performed so far, per kind
    workload            \* the session explored: "mixed", "fm", "FM" or "SSG"

imVars == <<insts, pools, regardingUnedited, fault, last, used, workload>>

(***************************************************************************)
(* State of the OPNAController.                                            *)
(***************************************************************************)
VARIABLES
    fm,                 \* the ...FM_[ch] members of FM channel 0
    ssg,                \* the ...SSG_[ch] members of SSG channel 0
    regs,               \* the chip registers, as opna_->setRegister left them
    adpcm,              \* the ...ADPCM_ members
    drum,               \* the ...Drum_[ch] members of drum channel 0 and the flags
    registerSetBuf,     \* registerSetBuf_: the direct register sets of the tick
    stream,             \* the output history, its mutex, the two threads using it
    macro,              \* an iterator over a macro sequence and what it reported
    ssgs,               \* the tone/noise and note-slide members of the three SSG
                        \* channels, the mixer and the registers 0x06 and 0x07
    vgm,                \* a VgmExportContainer and the call made on it last
    timer,              \* a Timer, its thread and the thread that owns it
    call,               \* the call made last, what it wrote, the call before it
    replay              \* a second controller that gets the calls made after reset()

ctlVars ==
    <<fm, ssg, adpcm, drum, regs, registerSetBuf, stream, macro, ssgs, vgm, timer, call,
      replay>>

NoInst == [src |-> "NONE"]

\* the manager as one value, handed from statement to statement
Mgr == [insts |-> insts, pools |-> pools, unedited |-> regardingUnedited,
        fault |-> fault]

\* InstrumentsManager::clearAll
clearAll ==
    [insts |-> [n \in InstNums |-> NoInst],
     pools |-> [p \in Pools |-> [s \in Slots |-> [users |-> {}, val |-> Default(p)]]]]

(***************************************************************************)
(* The reference set of a slot (AbstractInstrumentProperty).               *)
(***************************************************************************)
registerUserInstrument(S, pool, slot, instNum) ==
    [S EXCEPT !.pools[pool][slot].users = @ \cup {instNum}]

deregisterUserInstrument(S, pool, slot, instNum) ==
    [S EXCEPT !.pools[pool][slot].users = @ \ {instNum}]

isUserInstrument(S, pool, slot) == S.pools[pool][slot].users # {}

\* outcomes of envFM_[n]->registerUserInstrument(..) with n = 128, an access
\* past the end of the pool array: the process dies there, or the write
\* lands outside the pools, or on the first slot of some pool
UBOutcomes == {"crash", "none"} \cup Pools

\* pool[slot]->registerUserInstrument(instNum) through the unchecked operator[]
registerUnchecked(S, pool, slot, instNum, ub) ==
    IF slot \in Slots THEN registerUserInstrument(S, pool, slot, instNum)
    ELSE IF ub = "crash" THEN [S EXCEPT !.fault = "crash"]
    ELSE IF ub = "none" THEN [S EXCEPT !.fault = "ub"]
    ELSE [registerUserInstrument(S, ub, 0, instNum) EXCEPT !.fault = "ub"]

\* the setters of the instrument object itself (InstrumentFM::setLFONumber ..)
setNumber(S, instNum, f, num) == [S EXCEPT !.insts[instNum].num[f] = num]

setEnabled(S, instNum, f, enabled) == [S EXCEPT !.insts[instNum].en[f] = enabled]

(***************************************************************************)
(* findFirstAssignable<Kind>: the first slot that does not satisfy cond;   *)
(* under the strict policy its parameters are cleared.                     *)
(***************************************************************************)
findCond(S, pool, slot) ==
    IF S.unedited
    THEN isUserInstrument(S, pool, slot) \/ isEdited(pool, S.pools[pool][slot].val)
    ELSE isUserInstrument(S, pool, slot)

findFirstAssignable(S, pool) ==
    LET free == {s \in Slots : ~findCond(S, pool, s)}
    IN IF free = {} THEN [S |-> S, idx |-> -1]
       ELSE LET it == Min(free)
            IN [S |-> IF ~S.unedited
                      THEN [S EXCEPT !.pools[pool][it].val = Default(pool)]
                      ELSE S,
                idx |-> it]

(***************************************************************************)
(* addInstrument(instNum, source, name)                                    *)
(***************************************************************************)
RECURSIVE addPools(_, _, _, _)
\* one round per pool of the sound source: find a slot, fall back to the last
\* one, register the instrument when the reference is always enabled
addPools(S, ps, instNum, nums) ==
    IF ps = <<>> THEN [S |-> S, nums |-> nums]
    ELSE LET p == Head(ps)
             r == findFirstAssignable(S, p)
             num == IF r.idx = -1 THEN PoolSize - 1 ELSE r.idx
             S1 == IF AlwaysEnabled(p)
                   THEN registerUserInstrument(r.S, p, num, instNum)
                   ELSE r.S
         IN addPools(S1, Tail(ps), instNum, [nums EXCEPT ![p] = num])

\* addInstrument without the test of the number
addInstrumentUnchecked(S, instNum, source) ==
    IF source \notin SoundSources THEN S
    ELSE LET r == addPools(S, PoolsOf(source), instNum, [p \in Pools |-> -1])
         IN r.S

addInstrument(S, instNum, source) ==
    IF instNum < 0 \/ NumInsts <= instNum THEN S
    ELSE IF source \notin SoundSources THEN S
    ELSE LET r == addPools(S, PoolsOf(source), instNum, [p \in Pools |-> -1])
             inst == [src |-> source,
                      num |-> [f \in Fields(source) |-> r.nums[f.pool]],
                      en |-> [f \in Fields(source) |-> AlwaysEnabled(f.pool)],
                      rst |-> [t \in Range(EnvResetTypes(source)) |-> FALSE]]
         IN [r.S EXCEPT !.insts[instNum] = inst]

\* the slots addInstrument hands to a new instrument, per pool
provisionalSlots(S, source) == addPools(S, PoolsOf(source), 0, [p \in Pools |-> -1]).nums

(***************************************************************************)
(* setInstrument<Kind>(instNum, num) and setInstrument<Kind>Enabled        *)
(***************************************************************************)
setInstrumentProperty(S, instNum, f, num) ==
    LET inst == S.insts[instNum]
        S1 == IF AlwaysEnabled(f.pool) \/ inst.en[f]
              THEN registerUserInstrument(
                       deregisterUserInstrument(S, f.pool, inst.num[f], instNum),
                       f.pool, num, instNum)
              ELSE S
    IN setNumber(S1, instNum, f, num)

setInstrumentPropertyEnabled(S, instNum, f, enabled) ==
    LET S1 == setEnabled(S, instNum, f, enabled)
        slot == S1.insts[instNum].num[f]
    IN IF enabled THEN registerUserInstrument(S1, f.pool, slot, instNum)
       ELSE deregisterUserInstrument(S1, f.pool, slot, instNum)

\* InstrumentFM::setEnvelopeResetEnabled(op, enabled)
setInstrumentFMEnvelopeResetEnabled(S, instNum, op, enabled) ==
    [S EXCEPT !.insts[instNum].rst[op] = enabled]

RECURSIVE cloneEnvelopeReset(_, _, _, _)
\* for (auto t : fmOpTypes_)
\*     setInstrumentFMEnvelopeResetEnabled(cloneInstNum, t, refFm->getEnvelopeResetEnabled(t))
cloneEnvelopeReset(S, ts, cloneInstNum, refInst) ==
    IF ts = <<>> THEN S
    ELSE cloneEnvelopeReset(
             setInstrumentFMEnvelopeResetEnabled(S, cloneInstNum, Head(ts),
                                                 refInst.rst[Head(ts)]),
             Tail(ts), cloneInstNum, refInst)

(***************************************************************************)
(* cloneInstrument(cloneInstNum, refInstNum): the shallow clone            *)
(***************************************************************************)
RECURSIVE cloneFields(_, _, _, _)
\* per reference of refInst, in the code's order: set the clone's slot
\* number, then enable it when refInst has it enabled
cloneFields(S, fs, cloneInstNum, refInst) ==
    IF fs = <<>> THEN S
    ELSE LET f == Head(fs)
             S1 == setInstrumentProperty(S, cloneInstNum, f, refInst.num[f])
             S2 == IF ~AlwaysEnabled(f.pool) /\ refInst.en[f]
                   THEN setInstrumentPropertyEnabled(S1, cloneInstNum, f, TRUE)
                   ELSE S1
         IN cloneFields(S2, Tail(fs), cloneInstNum, refInst)

cloneInstrument(S, cloneInstNum, refInstNum) ==
    LET refInst == S.insts[refInstNum]
        S1 == addInstrument(S, cloneInstNum, refInst.src)
        S2 == cloneFields(S1, FieldSeq(refInst.src), cloneInstNum, refInst)
    IN cloneEnvelopeReset(S2, EnvResetTypes(refInst.src), cloneInstNum, refInst)

(***************************************************************************)
(* deepCloneInstrument(cloneInstNum, refInstNum) and the clone helpers     *)
(***************************************************************************)
\* clone<Kind>(srcNum): the first slot without users becomes a copy of slot
\* srcNum with an empty reference set; the slot count when there is none
cloneSlot(S, pool) ==
    LET free == {s \in Slots : ~isUserInstrument(S, pool, s)}
    IN IF free = {} THEN PoolSize ELSE Min(free)

cloneProperty(S, pool, srcNum) ==
    LET cloneNum == cloneSlot(S, pool)
    IN IF cloneNum = PoolSize THEN S
       ELSE [S EXCEPT !.pools[pool][cloneNum] =
                          [users |-> {}, val |-> S.pools[pool][srcNum].val]]

\* a statement that is not reached once the process has died
Alive(S, T) == IF S.fault = "crash" THEN S ELSE T

\* a reference that is always enabled: envelope of FM, waveform of ADPCM
deepCloneAlways(S, f, cloneInstNum, refInst, ub) ==
    LET S1 == deregisterUserInstrument(S, f.pool, S.insts[cloneInstNum].num[f],
                                       cloneInstNum)
        num == cloneSlot(S1, f.pool)
        S2 == setNumber(cloneProperty(S1, f.pool, refInst.num[f]), cloneInstNum, f, num)
    IN registerUnchecked(S2, f.pool, num, cloneInstNum, ub)

\* a reference with an enabled flag of its own
deepCloneOptional(S, f, cloneInstNum, refInst, ub) ==
    IF ~refInst.en[f] THEN S
    ELSE LET S1 == setEnabled(S, cloneInstNum, f, TRUE)
             num == cloneSlot(S1, f.pool)
             S2 == setNumber(cloneProperty(S1, f.pool, refInst.num[f]),
                             cloneInstNum, f, num)
         IN registerUnchecked(S2, f.pool, num, cloneInstNum, ub)

RECURSIVE enableTypes(_, _, _, _)
enableTypes(S, fs, cloneInstNum, refInst) ==
    IF fs = <<>> THEN S
    ELSE enableTypes(IF refInst.en[Head(fs)]
                     THEN setEnabled(S, cloneInstNum, Head(fs), TRUE) ELSE S,
                     Tail(fs), cloneInstNum, refInst)

RECURSIVE cloneKeys(_, _, _, _)
\* for (auto& pair : arpNums) pair.second = cloneFMArpeggio(pair.first)
cloneKeys(S, pool, keys, nums) ==
    IF keys = <<>> THEN [S |-> S, nums |-> nums]
    ELSE cloneKeys(cloneProperty(S, pool, Head(keys)), pool, Tail(keys),
                   [nums EXCEPT ![Head(keys)] = cloneSlot(S, pool)])

RECURSIVE assignTypes(_, _, _, _, _, _)
assignTypes(S, fs, cloneInstNum, refInst, nums, ub) ==
    IF fs = <<>> THEN S
    ELSE LET f == Head(fs)
             num == nums[refInst.num[f]]
             S1 == IF refInst.en[f]
                   THEN registerUnchecked(setNumber(S, cloneInstNum, f, num),
                                          f.pool, num, cloneInstNum, ub)
                   ELSE S
         IN Alive(S1, assignTypes(S1, Tail(fs), cloneInstNum, refInst, nums, ub))

\* arpeggio (pitch) of an FM instrument: the slots refInst uses are keys of
\* an unordered_map; order is the order in which the map is iterated
deepClonePerType(S, pool, cloneInstNum, refInst, order, ub) ==
    LET fs == FieldsOfPool(pool)
        usedNums == {refInst.num[f] : f \in {g \in Range(fs) : refInst.en[g]}}
        keys == SelectSeq(order, LAMBDA k : k \in usedNums)
        S1 == enableTypes(S, fs, cloneInstNum, refInst)
        r == cloneKeys(S1, pool, keys, [k \in Slots |-> -1])
    IN assignTypes(r.S, fs, cloneInstNum, refInst, r.nums, ub)

RECURSIVE deepClonePools(_, _, _, _, _, _)
deepClonePools(S, ps, cloneInstNum, refInst, order, ub) ==
    IF ps = <<>> THEN S
    ELSE LET p == Head(ps)
             f == FieldsOfPool(p)[1]
             S1 == IF PerOperatorType(p)
                   THEN deepClonePerType(S, p, cloneInstNum, refInst, order, ub)
                   ELSE IF AlwaysEnabled(p)
                   THEN deepCloneAlways(S, f, cloneInstNum, refInst, ub)
                   ELSE deepCloneOptional(S, f, cloneInstNum, refInst, ub)
         IN Alive(S1, deepClonePools(S1, Tail(ps), cloneInstNum, refInst, order, ub))

deepCloneInstrument(S, cloneInstNum, refInstNum, order, ub) ==
    LET refInst == S.insts[refInstNum]
        S1 == addInstrument(S, cloneInstNum, refInst.src)
        S2 == deepClonePools(S1, PoolsOf(refInst.src), cloneInstNum, refInst, order, ub)
    IN Alive(S2, cloneEnvelopeReset(S2, EnvResetTypes(refInst.src), cloneInstNum,
                                    refInst))

(***************************************************************************)
(* removeInstrument(instNum)                                               *)
(***************************************************************************)
RECURSIVE deregisterFields(_, _, _, _)
deregisterFields(S, fs, instNum, inst) ==
    IF fs = <<>> THEN S
    ELSE LET f == Head(fs)
             S1 == IF AlwaysEnabled(f.pool) \/ inst.en[f]
                   THEN deregisterUserInstrument(S, f.pool, inst.num[f], instNum)
                   ELSE S
         IN deregisterFields(S1, Tail(fs), instNum, inst)

removeInstrument(S, instNum) ==
    LET inst == S.insts[instNum]
        S1 == deregisterFields(S, FieldSeq(inst.src), instNum, inst)
    IN [S1 EXCEPT !.insts[instNum] = NoInst]

(***************************************************************************)
(* clearUnusedInstrumentProperties, clearUnusedWaveformsADPCM              *)
(***************************************************************************)
\* a clearing that resets every slot of the pools, used or not
clearEvery(S, ps) ==
    [S EXCEPT !.pools = [p \in Pools |-> [s \in Slots |->
        IF p \in ps
        THEN [users |-> S.pools[p][s].users, val |-> Default(p)]
        ELSE S.pools[p][s]]]]
clearUnused(S, ps) ==
    [S EXCEPT !.pools = [p \in Pools |-> [s \in Slots |->
        IF p \in ps /\ ~isUserInstrument(S, p, s)
        THEN [users |-> {}, val |-> Default(p)]
        ELSE S.pools[p][s]]]]

\* the loop with the FM pools only
clearUnusedPropertiesFM(S) == clearUnused(S, Range(PoolsOf("FM")))

clearUnusedInstrumentProperties(S) == clearUnused(S, Pools)

clearUnusedWaveformsADPCM(S) == clearUnused(S, {"wfADPCM"})

(***************************************************************************)
(* checkDuplicateInstruments and equalProperties<Source>                   *)
(***************************************************************************)
\* equalProperties* comparing the slot indices in place of the payloads
equalPropertiesBySlot(S, a, b) ==
    /\ \A f \in Fields(a.src) :
          IF AlwaysEnabled(f.pool) THEN a.num[f] = b.num[f]
          ELSE a.en[f] = b.en[f] /\ (a.en[f] => a.num[f] = b.num[f])
    /\ \A t \in Range(EnvResetTypes(a.src)) : a.rst[t] = b.rst[t]

\* equalPropertiesFM / SSG / ADPCM: an always-enabled reference compares the
\* payloads; any other compares the enabled flags and, when enabled, the
\* payloads
equalProperties(S, a, b) ==
    /\ \A f \in Fields(a.src) :
          LET va == S.pools[f.pool][a.num[f]].val
              vb == S.pools[f.pool][b.num[f]].val
          IN IF AlwaysEnabled(f.pool) THEN PropertyEq(f.pool, va, vb)
             ELSE a.en[f] = b.en[f] /\ (a.en[f] => PropertyEq(f.pool, va, vb))
    /\ \A t \in Range(EnvResetTypes(a.src)) : a.rst[t] = b.rst[t]

\* get<Kind>EntriedIndices: the indices, in order, of the slots that pass the
\* getter's test; the getters of the FM envelopes and of the ADPCM waveforms
\* test isEdited() alone
entried(S, pool, slot) ==
    IF pool \in {"envFM", "wfADPCM"} THEN isEdited(pool, S.pools[pool][slot].val)
    ELSE isUserInstrument(S, pool, slot) \/ isEdited(pool, S.pools[pool][slot].val)

getEntriedIndices(S, pool) ==
    SelectSeq([i \in 1..PoolSize |-> i - 1], LAMBDA slot : entried(S, pool, slot))

\* getEntriedInstrumentIndices
RECURSIVE entriedFrom(_, _)
entriedFrom(S, n) ==
    IF n >= NumInsts THEN <<>>
    ELSE (IF S.insts[n] # NoInst THEN <<n>> ELSE <<>>) \o entriedFrom(S, n + 1)

getEntriedInstrumentIndices(S) == entriedFrom(S, 0)

RemoveAt(seq, j) == SubSeq(seq, 1, j - 1) \o SubSeq(seq, j + 1, Len(seq))

RECURSIVE collectGroup(_, _, _, _, _)
\* the inner loop over j: a target equal to the base joins the group and is
\* erased from idcs
collectGroup(S, baseIdx, idcs, j, group) ==
    IF j > Len(idcs) THEN [group |-> group, idcs |-> idcs]
    ELSE LET tgtIdx == idcs[j]
             base == S.insts[baseIdx]
             tgt == S.insts[tgtIdx]
         IN IF base.src = tgt.src /\ equalProperties(S, base, tgt)
            THEN collectGroup(S, baseIdx, RemoveAt(idcs, j), j, Append(group, tgtIdx))
            ELSE collectGroup(S, baseIdx, idcs, j + 1, group)

RECURSIVE dupLoop(_, _, _, _)
dupLoop(S, idcs, i, dupList) ==
    IF i > Len(idcs) THEN dupList
    ELSE LET r == collectGroup(S, idcs[i], idcs, i + 1, <<idcs[i]>>)
         IN dupLoop(S, r.idcs, i + 1,
                    IF Len(r.group) > 1 THEN Append(dupList, r.group) ELSE dupList)

RECURSIVE dupLoopKeeping(_, _, _, _)
\* the outer loop without the erasure of the grouped numbers
dupLoopKeeping(S, idcs, i, dupList) ==
    IF i > Len(idcs) THEN dupList
    ELSE LET r == collectGroup(S, idcs[i], idcs, i + 1, <<idcs[i]>>)
         IN dupLoopKeeping(S, idcs, i + 1,
                           IF Len(r.group) > 1 THEN Append(dupList, r.group)
                           ELSE dupList)

checkDuplicateInstrumentsKeeping(S) ==
    dupLoopKeeping(S, getEntriedInstrumentIndices(S), 1, <<>>)

checkDuplicateInstruments(S) == dupLoop(S, getEntriedInstrumentIndices(S), 1, <<>>)

(***************************************************************************)
(* OPNAController.  The model follows FM channel 0 and SSG channel 0 of a  *)
(* controller in Standard mode.  No instrument is set on a channel, so     *)
(* refInst and the macro iterators (opSeqIt, arpIt, ptIt, wfIt, envIt,     *)
(* tnIt) stay null as initFM and initSSG leave them, as do the members     *)
(* only other calls change (tmpVol, detune, transpose, nsIt, sumPitch,     *)
(* sumNoteSld, isHardEnv, isBuzzEff); the branches on them are the ones a  *)
(* null or zero member takes.                                              *)
(***************************************************************************)
NumNotes == 2
MaxDepth == 1
WavePeriod == 4
MaxCalls == 4
MaxKeyOns == 6
MaxSends == 6
MaxVisits == 20
MaxTicks == 6
MaxMixes == 4
MaxStores == 5
DramSize == 128
SizeBits == 16
HistorySize == 2
MaxSamples == 3

Notes == 0..(NumNotes - 1)
Octaves == {4}
Depths == 0..MaxDepth
Periods == {0, WavePeriod}

\* ToneDetail; octave -1 marks a tone that is not set
NoTone == [octave |-> -1, note |-> 0, pitch |-> 0]

clamp(v, lo, hi) == IF v < lo THEN lo ELSE IF v > hi THEN hi ELSE v

RECURSIVE BitOr(_, _)
BitOr(a, b) ==
    IF a = 0 THEN b
    ELSE IF b = 0 THEN a
    ELSE (IF a % 2 = 1 \/ b % 2 = 1 THEN 1 ELSE 0) + 2 * BitOr(a \div 2, b \div 2)

\* x & ~flag, for a flag of one bit
ClearFlag(x, flag) == IF (x \div flag) % 2 = 1 THEN x - flag ELSE x

uint8(v) == v % 256

octaveAndNoteToNoteNumber(octave, note) == 12 * octave + note

SEMINOTE_PITCH == 32

\* PitchConverter: the 16-bit pitch word of a tone
getPitchFM(note, octave, pitch) ==
    (octaveAndNoteToNoteNumber(octave, note) * SEMINOTE_PITCH + pitch) % 65536

getPitchSSGSquare(note, octave, pitch) ==
    (octaveAndNoteToNoteNumber(octave, note) * SEMINOTE_PITCH + pitch) % 65536

\* WavingEffectIterator(period, depth): a triangular wave around 0;
\* a null iterator has period 0
NoIt == [period |-> 0, depth |-> 0, pos |-> 0]

WavingEffectIterator(period, depth) == [period |-> period, depth |-> depth, pos |-> 0]

front(it) == [it EXCEPT !.pos = 0]

next(it) == [it EXCEPT !.pos = (@ + 1) % it.period]

\* front() when a key on starts the sequences, next() otherwise
move(it, atFront) == IF atFront THEN front(it) ELSE next(it)

getCommandType(it) ==
    LET q == IF it.period < 4 THEN 1 ELSE it.period \div 4
        phase == it.pos
    IN IF phase <= q THEN (phase * it.depth) \div q
       ELSE IF phase <= 3 * q THEN ((2 * q - phase) * it.depth) \div q
       ELSE ((phase - 4 * q) * it.depth) \div q

isCarrier(op, al) ==
    \/ op = 3
    \/ al >= 4 /\ op = 1
    \/ al >= 5 /\ op = 2
    \/ al = 7

\* the song types of the constructor: mode_
SongTypes == {"Standard", "FM3chExpanded"}

\* in the 3-operator-expanded mode the operators 2..4 of FM3 are the
\* channels 6..8
toInternalFMChannel(f, ch) ==
    IF f.mode = "FM3chExpanded" /\ ch \in {6, 7, 8} THEN 2 ELSE ch

OperatorOf == [Op1 |-> 0, Op2 |-> 1, Op3 |-> 2, Op4 |-> 3]

toChannelOperatorType(f, ch) ==
    IF f.mode = "FM3chExpanded" /\ toInternalFMChannel(f, ch) = 2
    THEN CASE ch = 2 -> "Op1" [] ch = 6 -> "Op2" [] ch = 7 -> "Op3" [] ch = 8 -> "Op4"
    ELSE "All"

getFMChannelOffset(f, ch, forPitch) ==
    IF f.mode = "FM3chExpanded" /\ forPitch
    THEN CASE ch \in {0, 1} -> ch
           [] ch \in {3, 4, 5} -> 256 + (ch % 3)
           [] ch = 2 -> 9
           [] ch = 6 -> 10
           [] ch = 7 -> 8
           [] ch = 8 -> 2
           [] OTHER -> 0
    ELSE CASE toInternalFMChannel(f, ch) \in {0, 1, 2} -> ch
           [] toInternalFMChannel(f, ch) \in {3, 4, 5} -> 256 + (ch % 3)
           [] OTHER -> 0

\* the channel bits of the key on-off register 0x28
getFMKeyOnOffChannelMask(f, ch) ==
    LET inch == toInternalFMChannel(f, ch)
    IN IF inch < 3 THEN inch ELSE inch + 1

\* the key bits of the operators of FM3 whose channels are keyed on; the
\* channel of the session is the one that is keyed
getFM3SlotValidStatus(f) ==
    IF f.isKeyOn THEN 2 ^ OperatorOf[toChannelOperatorType(f, f.ch)] ELSE 0

\* slot & FM3_KEY_OFF_MASK_.at(ch): the key bits without the one of ch
FM3KeyOffMasked(f, slot) == ClearFlag(slot, 2 ^ OperatorOf[toChannelOperatorType(f, f.ch)])

SSGToneFlag(ch) == 2 ^ ch

\* register offset of operators 1..4 within a channel
OpOffset == <<0, 8, 4, 12>>

(***************************************************************************)
(* Macro sequence and iterator (CommandSequence, CommandSequence::Iterator). *)
(* A sequence has the type codes of its steps, loop regions {begin, end,   *)
(* times} and a release marker (a step index, NoRelease for none).         *)
(***************************************************************************)
NoRelease == -1

\* times of a loop that repeats for ever
Infinite == -1

\* the sentinel position: no output this tick
NoOutput == -1

\* a fresh iterator: rest[l] is the number of repeats the loop l has left
SequenceIterator(seq) ==
    [seq |-> seq, pos |-> NoOutput, finished |-> FALSE, isRelease |-> FALSE,
     rest |-> [l \in seq.loops |-> l.times]]

\* activate-front that pays no attention to the release marker
activateFrontAnyway(it) ==
    [it EXCEPT !.pos = IF Len(it.seq.types) = 0 THEN NoOutput ELSE 0,
               !.finished = FALSE, !.isRelease = FALSE,
               !.rest = [l \in it.seq.loops |-> l.times]]

\* activateFront(): the position goes to the start of the sequence, or to the
\* sentinel if the sequence is empty or the release marker is at the start
activateFront(it) ==
    [it EXCEPT !.pos = IF Len(it.seq.types) = 0 \/ it.seq.release = 0
                       THEN NoOutput ELSE 0,
               !.finished = FALSE, !.isRelease = FALSE,
               !.rest = [l \in it.seq.loops |-> l.times]]

\* the loops whose end is the index and that have repeats left
LoopsEndingAt(it, index) ==
    {l \in it.seq.loops : l.end = index /\ it.rest[l] # 0}

\* advance that crosses the release marker whatever the caller's phase
advanceAcross(it, inRelease) ==
    LET nextPos == it.pos + 1
        it1 == [it EXCEPT !.isRelease = @ \/ inRelease]
    IN IF it.finished THEN it
       ELSE IF LoopsEndingAt(it, nextPos) # {}
       THEN LET l == CHOOSE l \in LoopsEndingAt(it, nextPos) : TRUE
            IN [it1 EXCEPT !.pos = l.begin,
                           !.rest[l] = IF @ = Infinite THEN @ ELSE @ - 1]
       ELSE IF nextPos >= Len(it.seq.types)
       THEN [it1 EXCEPT !.pos = NoOutput, !.finished = TRUE]
       ELSE [it1 EXCEPT !.pos = nextPos]

\* advance that falls through a loop without replaying it
advanceThrough(it, inRelease) ==
    LET nextPos == it.pos + 1
        it1 == [it EXCEPT !.isRelease = @ \/ inRelease]
    IN IF it.finished THEN it
       ELSE IF ~inRelease /\ nextPos = it.seq.release
       THEN it1
       ELSE IF nextPos >= Len(it.seq.types)
       THEN [it1 EXCEPT !.pos = NoOutput, !.finished = TRUE]
       ELSE [it1 EXCEPT !.pos = nextPos]

\* advance(inRelease): to the next index; back to the begin of a loop that ends
\* there and has repeats left; held before the release marker unless
\* inRelease; finished, with the sentinel, once the sequence is exhausted
advance(it, inRelease) ==
    LET nextPos == it.pos + 1
        it1 == [it EXCEPT !.isRelease = @ \/ inRelease]
    IN IF it.finished THEN it
       ELSE IF LoopsEndingAt(it, nextPos) # {}
       THEN LET l == CHOOSE l \in LoopsEndingAt(it, nextPos) : TRUE
            IN [it1 EXCEPT !.pos = l.begin,
                           !.rest[l] = IF @ = Infinite THEN @ ELSE @ - 1]
       ELSE IF ~inRelease /\ nextPos = it.seq.release
       THEN it1
       ELSE IF nextPos >= Len(it.seq.types)
       THEN [it1 EXCEPT !.pos = NoOutput, !.finished = TRUE]
       ELSE [it1 EXCEPT !.pos = nextPos]

\* the type code of the step the iterator is at
commandTypeOf(it) == it.seq.types[it.pos + 1]

\* no iterator under test
NoMacro == [it |-> SequenceIterator([types |-> <<>>, loops |-> {}, release |-> NoRelease,
                                     type |-> "ABSOLUTE_SEQUENCE"]),
            visited |-> <<>>, plain |-> FALSE, released |-> FALSE]

\* the registers the modelled calls write: 0x00, 0x01, 0x07, 0x08, 0x28,
\* 0x40.., 0x80.., 0xa0, 0xa4, and those of FM3 and its operator 2
Regs == {0, 1, 7, 8, 40, 160, 164} \cup {64 + OpOffset[o] : o \in 1..4}
            \cup {128 + OpOffset[o] : o \in 1..4}
            \cup {128 + 2 + OpOffset[o] : o \in 1..4} \cup {64 + 6 + 8, 170, 174}
            \cup {96 + OpOffset[o] : o \in 1..4} \cup {96 + 2 + OpOffset[o] : o \in 1..4}
            \cup {256, 257, 258, 259, 260, 261, 265, 266, 267}
            \cup {264, 268, 269, 272}
            \cup {16, 17, 24}

\* the controller as one value, handed from statement to statement;
\* writes are the setRegister calls of the current call
setRegister(C, address, value) ==
    [C EXCEPT !.regs[address] = value, !.writes = Append(@, <<address, value>>)]

updateEchoBufferAtBack(baseTone, octave, note, pitch) ==
    Tail(baseTone) \o <<[octave |-> octave, note |-> note, pitch |-> pitch]>>

\* OPNAController::updateEchoBufferFM, updateEchoBufferSSG, updateEchoBufferADPCM:
\* pop_back(), push_front({ octave, note, pitch })
updateEchoBuffer(baseTone, octave, note, pitch) ==
    <<[octave |-> octave, note |-> note, pitch |-> pitch]>>
        \o SubSeq(baseTone, 1, Len(baseTone) - 1)

\* a tone portamento that takes the full depth on every step, also when the
\* target is nearer than that
checkPortamentoPassing(c) ==
    IF c.prtm # 0 /\ c.hasKeyOnBefore
    THEN IF c.isTonePrtm
         THEN LET base == c.baseTone[1]
                  dif == (octaveAndNoteToNoteNumber(base.octave, base.note)
                              * SEMINOTE_PITCH + base.pitch)
                         - (octaveAndNoteToNoteNumber(c.keyTone.octave, c.keyTone.note)
                              * SEMINOTE_PITCH + c.keyTone.pitch)
              IN IF dif > 0
                 THEN [c EXCEPT !.keyTone.pitch = @ + c.prtm, !.needToneSet = TRUE]
                 ELSE IF dif < 0
                 THEN [c EXCEPT !.keyTone.pitch = @ - c.prtm, !.needToneSet = TRUE]
                 ELSE c
         ELSE [c EXCEPT !.keyTone.pitch = @ + c.prtm, !.needToneSet = TRUE]
    ELSE c

\* OPNAController::checkPortamento with a null arpIt, on a channel record
checkPortamento(c) ==
    IF c.prtm # 0 /\ c.hasKeyOnBefore
    THEN IF c.isTonePrtm
         THEN LET base == c.baseTone[1]
                  dif == (octaveAndNoteToNoteNumber(base.octave, base.note)
                              * SEMINOTE_PITCH + base.pitch)
                         - (octaveAndNoteToNoteNumber(c.keyTone.octave, c.keyTone.note)
                              * SEMINOTE_PITCH + c.keyTone.pitch)
              IN IF dif > 0
                 THEN [c EXCEPT !.keyTone = IF dif - c.prtm < 0 THEN base
                                            ELSE [@ EXCEPT !.pitch = @ + c.prtm],
                                !.needToneSet = TRUE]
                 ELSE IF dif < 0
                 THEN [c EXCEPT !.keyTone = IF dif + c.prtm > 0 THEN base
                                            ELSE [@ EXCEPT !.pitch = @ - c.prtm],
                                !.needToneSet = TRUE]
                 ELSE c
         ELSE [c EXCEPT !.keyTone.pitch = @ + c.prtm, !.needToneSet = TRUE]
    ELSE c

(***************************************************************************)
(* FM channel                                                              *)
(***************************************************************************)
\* OPNAController::writeFMEnveropeParameterToRegister for RR<op + 1>
writeFMEnveropeParameterToRegister(C, inch, op, value) ==
    LET C1 == [C EXCEPT !.fm.env.rr[op + 1] = value]
        data == uint8(BitOr(C1.fm.env.sl[op + 1] * 16, C1.fm.env.rr[op + 1]))
    IN setRegister(C1, 128 + getFMChannelOffset(C.fm, inch, FALSE) + OpOffset[op + 1],
                   data)

\* what refInstFM_[inch]->getLFOEnabled() ? ...getLFOParameter(AM<op + 1>) : 0
\* comes to. The instruments of the sessions have no LFO; on a channel without
\* an instrument the null pointer is dereferenced, and the build either stops
\* there (Crashed) or goes on with whatever it read (0 or 1)
Crashed == -1
OutcomesOfAbsent == {Crashed, 0, 1}

getLFOAM(C, ub) == IF C.fm.hasInst THEN 0 ELSE ub

\* OPNAController::writeFMEnveropeParameterToRegister for DR<op + 1>
writeFMEnveropeDRToRegister(C, inch, op, value, ub) ==
    LET C1 == [C EXCEPT !.fm.env.dr[op + 1] = value]
        am == getLFOAM(C1, ub)
    IN IF am = Crashed THEN C1
       ELSE setRegister(C1, 96 + getFMChannelOffset(C.fm, inch, FALSE) + OpOffset[op + 1],
                        uint8(BitOr(am * 128, C1.fm.env.dr[op + 1])))

\* OPNAController::setDRControlFM; no operator sequence runs in the sessions
setDRControlFM(C, op, value, ub) ==
    LET inch == toInternalFMChannel(C.fm, C.fm.ch)
        C1 == writeFMEnveropeDRToRegister(C, inch, op, value, ub)
    IN IF getLFOAM(C, ub) = Crashed THEN C1
       ELSE [C1 EXCEPT !.fm.isDRCtrl = @ \cup {op}]

\* how the call ended: "none", or what dereferencing the absent instrument did
faultOfAbsent(C, ub) ==
    IF C.fm.hasInst THEN "none" ELSE IF ub = Crashed THEN "crash" ELSE "ub"

\* one operator of OPNAController::checkVolumeEffectFM
writeOperatorVolume(C, op, v) ==
    setRegister(C, 64 + getFMChannelOffset(C.fm, C.fm.ch, FALSE) + OpOffset[op + 1],
                uint8(clamp(C.fm.env.tl[op + 1] + v, 0, 127)))

writeCarrierVolume(C, op, v) ==
    IF isCarrier(op, C.fm.env.al) THEN writeOperatorVolume(C, op, v) ELSE C

checkVolumeEffectFM(C) ==
    LET c == C.fm
        v == IF c.treIt # NoIt THEN getCommandType(c.treIt) + c.sumVolSld
             ELSE c.sumVolSld
    IN IF c.treIt = NoIt /\ c.volSld = 0 THEN C
       ELSE IF toChannelOperatorType(c, c.ch) = "All"
       THEN writeCarrierVolume(
                writeCarrierVolume(
                    writeCarrierVolume(
                        writeCarrierVolume(C, 0, v), 1, v), 2, v), 3, v)
       ELSE writeOperatorVolume(C, OperatorOf[toChannelOperatorType(c, c.ch)], v)

writePitchFM(C) ==
    LET c == C.fm IN
    IF c.keyTone.octave = -1 THEN C
    ELSE LET p == getPitchFM(c.keyTone.note, c.keyTone.octave,
                             c.keyTone.pitch
                             + (IF c.vibIt # NoIt THEN getCommandType(c.vibIt) ELSE 0))
             offset == getFMChannelOffset(c, c.ch, TRUE)
             C1 == setRegister(C, 164 + offset, p \div 256)
             C2 == setRegister(C1, 160 + offset, p % 256)
         IN [C2 EXCEPT !.fm.needToneSet = FALSE]

\* noteNumberToOctaveAndNote
noteNumberToOctaveAndNote(num) ==
    IF num < 0 THEN [octave |-> 0, note |-> 0]
    ELSE IF num \div 12 > 7 THEN [octave |-> 7, note |-> 11]
    ELSE [octave |-> num \div 12, note |-> num % 12]

\* the tone an arpeggio step stands for, with the command type taken as it is
arpeggioToneUncentred(c, commandType) ==
    noteNumberToOctaveAndNote(
        octaveAndNoteToNoteNumber(c.baseTone[1].octave, c.baseTone[1].note) + commandType)

\* OPNAController::checkRealToneByArpeggio, ABSOLUTE_SEQUENCE: the tone of the
\* step, baseTone.front() moved by getCommandType() - 48 semitones
arpeggioTone(c, commandType) ==
    noteNumberToOctaveAndNote(
        octaveAndNoteToNoteNumber(c.baseTone[1].octave, c.baseTone[1].note)
        + commandType - 48)

\* OPNAController::checkRealToneByArpeggio on a channel record, seqPos being
\* what front() or next() of the arpeggio iterator returned
checkRealToneByArpeggio(c, seqPos) ==
    IF seqPos = NoOutput THEN c
    ELSE LET type == c.arpIt.seq.type
             commandType == commandTypeOf(c.arpIt)
             pair == IF type = "ABSOLUTE_SEQUENCE" THEN arpeggioTone(c, commandType)
                     ELSE IF type = "FIXED_SEQUENCE"
                     THEN noteNumberToOctaveAndNote(commandType)
                     ELSE noteNumberToOctaveAndNote(
                              octaveAndNoteToNoteNumber(c.keyTone.octave, c.keyTone.note)
                              + commandType - 48)
         IN [c EXCEPT !.keyTone.octave = pair.octave, !.keyTone.note = pair.note,
                      !.needToneSet = TRUE]

\* OPNAController::checkRealToneFMByArpeggio, the iterator having been moved
checkRealToneFMByArpeggio(c) == checkRealToneByArpeggio(c, c.arpIt.pos)

\* if (arpItFM_[ch]) checkRealToneFMByArpeggio(ch, arpItFM_[ch]->front() or
\* ->next() or ->next(true)): type is 1, 0 or 2 as in checkOperatorSequenceFM
stepArpeggioFM(c, type) ==
    IF c.arpIt = NoIt THEN c
    ELSE checkRealToneFMByArpeggio(
             [c EXCEPT !.arpIt = IF type = 1 THEN activateFront(@)
                                 ELSE advance(@, type = 2)])

\* OPNAController::checkPortamento with the arpeggio iterator of the channel
checkPortamentoFM(c) ==
    IF c.arpIt = NoIt \/ c.arpIt.pos = NoOutput THEN checkPortamento(c) ELSE c

\* the sequence step shared by setFrontFMSequences (the iterators go to
\* front, type 1), tickEventFM (they go to next, type 0) and
\* releaseStartFMSequences (next(true), type 2)
stepVibratoFM(C, atFront) ==
    IF C.fm.vibIt # NoIt
    THEN [C EXCEPT !.fm.vibIt = move(@, atFront), !.fm.needToneSet = TRUE]
    ELSE C

stepTremoloFM(C, atFront) ==
    [C EXCEPT !.fm.treIt = IF @ # NoIt THEN move(@, atFront) ELSE @,
              !.fm.sumVolSld = @ + C.fm.volSld]

stepFMSequences(C, type) ==
    stepVibratoFM(
        [checkVolumeEffectFM(stepTremoloFM(C, type = 1))
            EXCEPT !.fm = checkPortamentoFM(stepArpeggioFM(@, type))],
        type = 1)

\* if (needToneSetFM_[ch]) writePitchFM(ch);
writePitchFMIfNeeded(C) == IF C.fm.needToneSet THEN writePitchFM(C) ELSE C

setFrontFMSequences(C) ==
    IF C.fm.isMute THEN C
    ELSE writePitchFM(stepFMSequences(C, 1))

\* a release start that steps nothing
releaseStartFMSequencesOfMuted(C) == C

releaseStartFMSequences(C) ==
    IF C.fm.isMute THEN C
    ELSE writePitchFMIfNeeded(stepFMSequences(C, 2))

tickEventFM(C) ==
    IF C.fm.hasPreSetTickEvent THEN [C EXCEPT !.fm.hasPreSetTickEvent = FALSE]
    ELSE IF C.fm.isMute THEN C
    ELSE writePitchFMIfNeeded(stepFMSequences(C, 0))

\* the end of OPNAController::keyOnFM: the key-on registers, C4 being the
\* controller after the sequences were set to their front
keyOnFMRegisters(C4, isTonePrtm) ==
    LET chdata == getFMKeyOnOffChannelMask(C4.fm, C4.fm.ch)
        C5 == IF C4.fm.isKeyOn THEN setRegister(C4, 40, chdata)
              ELSE [C4 EXCEPT !.fm.isKeyOn = TRUE]
        \* the operators of FM3 in the 3-operator-expanded mode
        K1 == [C4 EXCEPT !.fm.isKeyOn = TRUE]
        slot == getFM3SlotValidStatus(K1.fm)
        K2 == IF C4.fm.isKeyOn
              THEN setRegister(K1, 40,
                               BitOr(uint8(FM3KeyOffMasked(K1.fm, slot) * 16), chdata))
              ELSE K1
        C6 == IF isTonePrtm THEN C4
              ELSE IF toChannelOperatorType(C4.fm, C4.fm.ch) = "All"
              THEN setRegister(C5, 40, BitOr(uint8(C5.fm.fmOpEnables * 16), chdata))
              ELSE setRegister(K2, 40, BitOr(uint8(slot * 16), chdata))
    IN [C6 EXCEPT !.fm.hasKeyOnBefore = TRUE]

keyOnFM(C, note, octave, pitch, isJam) ==
    IF C.fm.isMute THEN C
    ELSE
    LET C1 == [C EXCEPT !.fm.baseTone = updateEchoBuffer(@, octave, note, pitch)]
        isTonePrtm == C1.fm.isTonePrtm /\ C1.fm.hasKeyOnBefore
        C2 == IF isTonePrtm THEN C1
              ELSE [C1 EXCEPT !.fm.keyTone = C1.fm.baseTone[1], !.fm.sumVolSld = 0]
        C3 == setFrontFMSequences([C2 EXCEPT !.fm.needToneSet = TRUE])
    IN keyOnFMRegisters([C3 EXCEPT !.fm.hasPreSetTickEvent = isJam], isTonePrtm)

keyOffFM(C, isJam) ==
    IF ~C.fm.isKeyOn THEN tickEventFM(C)
    ELSE LET C1 == releaseStartFMSequences(C)
             C2 == [C1 EXCEPT !.fm.hasPreSetTickEvent = isJam, !.fm.isKeyOn = FALSE]
             chdata == getFMKeyOnOffChannelMask(C.fm, C.fm.ch)
             slot == IF C.fm.mode = "FM3chExpanded"
                        /\ toInternalFMChannel(C.fm, C.fm.ch) = 2
                     THEN uint8(getFM3SlotValidStatus(C2.fm) * 16)
                     ELSE 0
         IN setRegister(C2, 40, BitOr(slot, chdata))

\* one operator of OPNAController::resetFMChannelEnvelope
resetRR(C, inch, op) ==
    LET prev == C.fm.env.rr[op + 1]
        C1 == writeFMEnveropeParameterToRegister(C, inch, op, 127)
    IN [C1 EXCEPT !.fm.env.rr[op + 1] = prev]

resetFMChannelEnvelope(C) ==
    LET C1 == [keyOffFM(C, FALSE) EXCEPT !.fm.hasResetEnv = TRUE]
        ch == C.fm.ch
    IN IF C.fm.mode = "FM3chExpanded" /\ toInternalFMChannel(C.fm, ch) = 2
       THEN resetRR(C1, 2, CASE ch = 2 -> 0 [] ch = 6 -> 1 [] ch = 7 -> 2 [] ch = 8 -> 3)
       ELSE resetRR(resetRR(resetRR(resetRR(C1, ch, 0), ch, 1), ch, 2), ch, 3)

restoreRR(C, inch, op) ==
    writeFMEnveropeParameterToRegister(C, inch, op, C.fm.env.rr[op + 1])

\* an unmute that writes nothing
setMuteFMStateFlagOnly(C, isMute) ==
    LET C1 == [C EXCEPT !.fm.isMute = isMute]
    IN IF isMute THEN resetFMChannelEnvelope(C1) ELSE C1

setMuteFMState(C, isMute) ==
    LET C1 == [C EXCEPT !.fm.isMute = isMute]
        inch == toInternalFMChannel(C.fm, C.fm.ch)
        opType == toChannelOperatorType(C.fm, C.fm.ch)
    IN IF isMute THEN resetFMChannelEnvelope(C1)
       ELSE IF opType = "All"
       THEN restoreRR(restoreRR(restoreRR(restoreRR(C1, inch, 0), inch, 1), inch, 2),
                      inch, 3)
       ELSE restoreRR(C1, inch, OperatorOf[opType])

setPortamentoEffectFM(C, depth, isTonePortamento) ==
    [C EXCEPT !.fm.prtm = depth,
              !.fm.isTonePrtm = IF depth # 0 THEN isTonePortamento ELSE FALSE]

setVibratoEffectFM(C, period, depth) ==
    [C EXCEPT !.fm.vibIt = IF period # 0 /\ depth # 0
                           THEN WavingEffectIterator(period, depth) ELSE NoIt]

setTremoloEffectFM(C, period, depth) ==
    [C EXCEPT !.fm.treIt = IF period # 0 /\ depth # 0
                           THEN WavingEffectIterator(period, depth) ELSE NoIt]

setVolumeSlideFM(C, depth, isUp) ==
    [C EXCEPT !.fm.volSld = IF isUp THEN -depth ELSE depth]

\* the envelope a channel holds: algorithm and, per operator, total level,
\* sustain level and release rate
EnvsFM ==
    {[al |-> al, tl |-> <<tl, tl, tl, tl>>, sl |-> <<0, 1, 2, 3>>, rr |-> <<7, 6, 5, 4>>,
      dr |-> <<0, 0, 0, 0>>] :
        al \in {0, 7}, tl \in {0, 127}}

\* the envelope of a channel that never got an instrument, which is also the
\* envelope of the controller in the sessions on the manager
DEF_ENV_CTL == CHOOSE env \in EnvsFM : env.al = 0 /\ env.tl[1] = 0

\* the members of FM channel 0 after the constructor and initFM
initFM(env, type, ch) ==
    [mode |-> type, ch |-> ch, isMute |-> FALSE, fmOpEnables |-> 15, env |-> env,
     hasInst |-> env # DEF_ENV_CTL, isDRCtrl |-> {}, arpIt |-> NoIt,
     isKeyOn |-> FALSE, hasKeyOnBefore |-> FALSE,
     baseTone |-> <<NoTone, NoTone, NoTone, NoTone>>, keyTone |-> NoTone,
     hasResetEnv |-> FALSE, hasPreSetTickEvent |-> FALSE, needToneSet |-> FALSE,
     prtm |-> 0, isTonePrtm |-> FALSE, vibIt |-> NoIt, treIt |-> NoIt,
     volSld |-> 0, sumVolSld |-> 0]

(***************************************************************************)
(* SSG channel                                                             *)
(***************************************************************************)
writeSquareWaveform(C) ==
    IF C.ssg.wf = "SQUARE"
    THEN IF ~C.ssg.isKeyOn
         THEN [C EXCEPT !.ssg.needEnvSet = TRUE, !.ssg.needToneSet = TRUE]
         ELSE C
    ELSE [C EXCEPT !.ssg.needMixSet = TRUE, !.ssg.needEnvSet = TRUE,
                   !.ssg.needToneSet = TRUE, !.ssg.wf = "SQUARE"]

setRealVolumeSSG(C) ==
    LET c == C.ssg
        volume == c.baseVol
                  + (IF c.treIt # NoIt THEN getCommandType(c.treIt) ELSE 0)
                  + c.sumVolSld
        C1 == setRegister(C, 8 + 0, uint8(clamp(volume, 0, 15)))
    IN [C1 EXCEPT !.ssg.needEnvSet = FALSE]

writeToneNoiseSSGToRegisterNoReference(C) ==
    LET C1 == [C EXCEPT !.ssg.mixer = ClearFlag(@, SSGToneFlag(0)),
                        !.ssg.isTone = TRUE]
        C2 == setRegister(C1, 7, C1.ssg.mixer)
    IN [C2 EXCEPT !.ssg.needMixSet = FALSE]

writePitchSSG(C) ==
    LET c == C.ssg IN
    IF c.keyTone.octave = -1 THEN C
    ELSE LET p == c.keyTone.pitch
                  + (IF c.vibIt # NoIt THEN getCommandType(c.vibIt) ELSE 0)
             pitch == getPitchSSGSquare(c.keyTone.note, c.keyTone.octave, p)
             C1 == IF c.wf = "SQUARE" /\ c.needToneSet
                   THEN setRegister(setRegister(C, 0, pitch % 256), 1, pitch \div 256)
                   ELSE C
         IN [C1 EXCEPT !.ssg.needToneSet = FALSE, !.ssg.needEnvSet = FALSE]

\* the effect steps shared by the three sequence functions
stepSSGVolume(C, atFront) ==
    LET C1 == IF C.ssg.treIt # NoIt
              THEN [C EXCEPT !.ssg.treIt = move(@, atFront), !.ssg.needEnvSet = TRUE]
              ELSE C
    IN IF C1.ssg.volSld # 0
       THEN [C1 EXCEPT !.ssg.sumVolSld = @ + C1.ssg.volSld, !.ssg.needEnvSet = TRUE]
       ELSE C1

stepSSGTone(C, atFront) ==
    LET C1 == IF C.ssg.needMixSet THEN writeToneNoiseSSGToRegisterNoReference(C) ELSE C
        C2 == [C1 EXCEPT !.ssg = checkPortamento(@)]
    IN IF C2.ssg.vibIt # NoIt
       THEN [C2 EXCEPT !.ssg.vibIt = move(@, atFront), !.ssg.needToneSet = TRUE]
       ELSE C2

setFrontSSGSequences(C) ==
    IF C.ssg.isMute THEN C
    ELSE LET C1 == writeSquareWaveform(C)
             C2 == setRealVolumeSSG(stepSSGVolume(C1, TRUE))
         IN writePitchSSG(stepSSGTone(C2, TRUE))

releaseStartSSGSequences(C) ==
    IF C.ssg.isMute THEN C
    ELSE LET C1 == stepSSGVolume(C, FALSE)
             C2 == IF ~C1.ssg.hasPreSetTickEvent THEN setRegister(C1, 8 + 0, 0) ELSE C1
             C3 == stepSSGTone(C2, FALSE)
         IN IF C3.ssg.needToneSet THEN writePitchSSG(C3) ELSE C3

tickEventSSG(C) ==
    IF C.ssg.hasPreSetTickEvent THEN [C EXCEPT !.ssg.hasPreSetTickEvent = FALSE]
    ELSE IF C.ssg.isMute THEN C
    ELSE LET C1 == stepSSGVolume(C, FALSE)
             C2 == IF C1.ssg.needToneSet \/ C1.ssg.needEnvSet
                   THEN setRealVolumeSSG(C1) ELSE C1
             C3 == stepSSGTone(C2, FALSE)
         IN IF C3.ssg.needToneSet THEN writePitchSSG(C3) ELSE C3

keyOnSSG(C, note, octave, pitch, isJam) ==
    IF C.ssg.isMute THEN C
    ELSE
    LET C1 == [C EXCEPT !.ssg.baseTone = updateEchoBuffer(@, octave, note, pitch)]
        C2 == IF C1.ssg.isTonePrtm /\ C1.ssg.hasKeyOnBefore THEN C1
              ELSE [C1 EXCEPT !.ssg.keyTone = C1.ssg.baseTone[1], !.ssg.sumVolSld = 0]
        C3 == setFrontSSGSequences(
                  [C2 EXCEPT !.ssg.needToneSet = TRUE, !.ssg.isKeyOn = FALSE])
    IN [C3 EXCEPT !.ssg.hasPreSetTickEvent = isJam, !.ssg.isKeyOn = TRUE,
                  !.ssg.hasKeyOnBefore = TRUE]

\* a keyOff that takes the release path whether the channel sounds or not
keyOffSSGOfSounding(C, isJam) ==
    [releaseStartSSGSequences(C) EXCEPT !.ssg.hasPreSetTickEvent = isJam,
                                        !.ssg.isKeyOn = FALSE]

keyOffSSG(C, isJam) ==
    IF ~C.ssg.isKeyOn THEN tickEventSSG(C)
    ELSE [releaseStartSSGSequences(C) EXCEPT !.ssg.hasPreSetTickEvent = isJam,
                                             !.ssg.isKeyOn = FALSE]

\* a mute that sets the flag and leaves the channel as it sounds
setMuteSSGStateFlagOnly(C, isMute) == [C EXCEPT !.ssg.isMute = isMute]

setMuteSSGState(C, isMute) ==
    LET C1 == [C EXCEPT !.ssg.isMute = isMute]
    IN IF isMute THEN [setRegister(C1, 8 + 0, 0) EXCEPT !.ssg.isKeyOn = FALSE]
       ELSE C1

setPortamentoEffectSSG(C, depth, isTonePortamento) ==
    [C EXCEPT !.ssg.prtm = depth,
              !.ssg.isTonePrtm = IF depth # 0 THEN isTonePortamento ELSE FALSE]

setVibratoEffectSSG(C, period, depth) ==
    [C EXCEPT !.ssg.vibIt = IF period # 0 /\ depth # 0
                            THEN WavingEffectIterator(period, depth) ELSE NoIt]

setTremoloEffectSSG(C, period, depth) ==
    [C EXCEPT !.ssg.treIt = IF period # 0 /\ depth # 0
                            THEN WavingEffectIterator(period, depth) ELSE NoIt]

setVolumeSlideSSG(C, depth, isUp) ==
    [C EXCEPT !.ssg.volSld = IF isUp THEN depth ELSE -depth]

\* the members of SSG channel 0 after the constructor and initSSG
initSSG ==
    [isMute |-> FALSE, mixer |-> 255,
     isKeyOn |-> FALSE, hasKeyOnBefore |-> FALSE,
     baseTone |-> <<NoTone, NoTone, NoTone, NoTone>>, keyTone |-> NoTone,
     isTone |-> FALSE, baseVol |-> 15,
     hasPreSetTickEvent |-> FALSE, wf |-> "UNSET",
     needEnvSet |-> FALSE, needMixSet |-> FALSE, needToneSet |-> FALSE,
     prtm |-> 0, isTonePrtm |-> FALSE, vibIt |-> NoIt, treIt |-> NoIt,
     volSld |-> 0, sumVolSld |-> 0]

\* OPNAController::OPNAController and initChip: the registers the model
\* follows are untouched (-1) but for the SSG mixer
(***************************************************************************)
(* The ADPCM channel.  Its instrument has a waveform and no sequence; the  *)
(* effects of the channel are the vibrato and the tremolo.                 *)
(***************************************************************************)
\* the instrument: waveform flags and addresses, root key and root delta-N
InstADPCM ==
    [repeat |-> FALSE, start |-> 0, stop |-> 1,
     rootKey |-> octaveAndNoteToNoteNumber(4, 0), rootDeltaN |-> 10000]

RECURSIVE deltaN(_, _)
\* round(rootDeltaN * 2^(pitchDiff / 384)) for a pitchDiff of whole
\* seminotes, a seminote at a time
deltaN(root, seminotes) ==
    IF seminotes <= 0 THEN root
    ELSE deltaN((root * 10595 + 5000) \div 10000, seminotes - 1)

initADPCM ==
    [isMute |-> FALSE, hasInst |-> FALSE,
     isKeyOn |-> FALSE, hasKeyOnBefore |-> FALSE,
     baseTone |-> <<NoTone, NoTone, NoTone, NoTone>>, keyTone |-> NoTone,
     baseVol |-> 255, pan |-> 192, startAddr |-> 0, stopAddr |-> 0, storePoint |-> 0,
     hasPreSetTickEvent |-> FALSE, needEnvSet |-> FALSE, needToneSet |-> FALSE,
     prtm |-> 0, isTonePrtm |-> FALSE, vibIt |-> NoIt, treIt |-> NoIt]

setVibratoEffectADPCM(C, period, depth) ==
    [C EXCEPT !.adpcm.vibIt = IF period # 0 /\ depth # 0
                              THEN WavingEffectIterator(period, depth) ELSE NoIt]

setTremoloEffectADPCM(C, period, depth) ==
    [C EXCEPT !.adpcm.treIt = IF period # 0 /\ depth # 0
                              THEN WavingEffectIterator(period, depth) ELSE NoIt]

\* the tremolo and the vibrato steps of the three sequence functions
stepADPCMTremolo(C, atFront) ==
    IF C.adpcm.treIt # NoIt
    THEN [C EXCEPT !.adpcm.treIt = move(@, atFront), !.adpcm.needEnvSet = TRUE]
    ELSE C

stepADPCMVibrato(C, atFront) ==
    IF C.adpcm.vibIt # NoIt
    THEN [C EXCEPT !.adpcm.vibIt = move(@, atFront), !.adpcm.needToneSet = TRUE]
    ELSE C

setInstrumentADPCM(C) == [C EXCEPT !.adpcm.hasInst = TRUE]

setRealVolumeADPCM(C) ==
    LET volume == C.adpcm.baseVol
                  + (IF C.adpcm.treIt # NoIt THEN getCommandType(C.adpcm.treIt) ELSE 0)
    IN [setRegister(C, 267, uint8(clamp(volume, 0, 255)))
           EXCEPT !.adpcm.needEnvSet = FALSE]

writePitchADPCM(C) ==
    IF C.adpcm.keyTone.octave = -1 THEN C
    ELSE LET t == C.adpcm.keyTone
             p == octaveAndNoteToNoteNumber(t.octave, t.note) * SEMINOTE_PITCH + t.pitch
                  + (IF C.adpcm.vibIt # NoIt THEN getCommandType(C.adpcm.vibIt) ELSE 0)
             pitchDiff == p - SEMINOTE_PITCH * InstADPCM.rootKey
             deltan == deltaN(InstADPCM.rootDeltaN, pitchDiff \div SEMINOTE_PITCH)
             C1 == setRegister(C, 265, deltan % 256)
             C2 == setRegister(C1, 266, (deltan \div 256) % 256)
         IN [C2 EXCEPT !.adpcm.needToneSet = FALSE, !.adpcm.needEnvSet = FALSE]

setFrontADPCMSequences(C) ==
    IF C.adpcm.isMute \/ ~C.adpcm.hasInst THEN C
    ELSE LET C1 == setRealVolumeADPCM(stepADPCMTremolo(C, TRUE))
             C2 == [C1 EXCEPT !.adpcm = checkPortamento(@)]
         IN writePitchADPCM(stepADPCMVibrato(C2, TRUE))

releaseStartADPCMSequences(C) ==
    IF C.adpcm.isMute \/ ~C.adpcm.hasInst THEN C
    ELSE LET C0 == stepADPCMTremolo(C, FALSE)
             C1 == IF ~C0.adpcm.hasPreSetTickEvent THEN setRegister(C0, 267, 0) ELSE C0
             C2 == stepADPCMVibrato([C1 EXCEPT !.adpcm = checkPortamento(@)], FALSE)
         IN IF C2.adpcm.needToneSet THEN writePitchADPCM(C2) ELSE C2

tickEventADPCM(C) ==
    IF C.adpcm.hasPreSetTickEvent THEN [C EXCEPT !.adpcm.hasPreSetTickEvent = FALSE]
    ELSE IF C.adpcm.isMute \/ ~C.adpcm.hasInst THEN C
    ELSE LET C0 == stepADPCMTremolo(C, FALSE)
             C1 == IF C0.adpcm.needEnvSet THEN setRealVolumeADPCM(C0) ELSE C0
             C2 == stepADPCMVibrato([C1 EXCEPT !.adpcm = checkPortamento(@)], FALSE)
         IN IF C2.adpcm.needToneSet THEN writePitchADPCM(C2) ELSE C2

\* the address registers are written when the address differs from the one
\* written last
writeAddressADPCM(C, low, member, address) ==
    IF address = C.adpcm[member] THEN C
    ELSE [setRegister(setRegister(C, low, address % 256), low + 1,
                      (address \div 256) % 256)
             EXCEPT !.adpcm[member] = address]

keyOnADPCM(C, note, octave, pitch, isJam) ==
    IF C.adpcm.isMute \/ ~C.adpcm.hasInst THEN C
    ELSE
    LET C1 == [C EXCEPT !.adpcm.baseTone = updateEchoBuffer(@, octave, note, pitch)]
        isTonePrtm == C1.adpcm.isTonePrtm /\ C1.adpcm.hasKeyOnBefore
        C2 == IF isTonePrtm THEN C1
              ELSE [C1 EXCEPT !.adpcm.keyTone = C1.adpcm.baseTone[1]]
        C3 == setFrontADPCMSequences([C2 EXCEPT !.adpcm.needToneSet = TRUE])
        C4 == [C3 EXCEPT !.adpcm.hasPreSetTickEvent = isJam]
        repeatFlag == IF InstADPCM.repeat THEN 16 ELSE 0
        C5 == setRegister(setRegister(setRegister(C4, 257, 2), 256, 161),
                          256, BitOr(33, repeatFlag))
        C6 == writeAddressADPCM(C5, 258, "startAddr", InstADPCM.start)
        C7 == writeAddressADPCM(C6, 260, "stopAddr", InstADPCM.stop)
        C8 == setRegister(setRegister(C7, 256, BitOr(160, repeatFlag)),
                          257, BitOr(C7.adpcm.pan, 2))
        C9 == IF isTonePrtm THEN C4 ELSE [C8 EXCEPT !.adpcm.isKeyOn = TRUE]
    IN [C9 EXCEPT !.adpcm.hasKeyOnBefore = TRUE]

keyOffADPCM(C, isJam) ==
    IF ~C.adpcm.isKeyOn THEN tickEventADPCM(C)
    ELSE [releaseStartADPCMSequences(C) EXCEPT !.adpcm.hasPreSetTickEvent = isJam,
                                               !.adpcm.isKeyOn = FALSE]

setMuteADPCMState(C, isMute) ==
    LET C1 == [C EXCEPT !.adpcm.isMute = isMute]
    IN IF isMute THEN [setRegister(C1, 267, 0) EXCEPT !.adpcm.isKeyOn = FALSE]
       ELSE C1

(***************************************************************************)
(* keyOn from the echo buffer: keyOnFM(ch, echoBuf), keyOnSSG(ch, echoBuf) *)
(* and keyOnADPCM(echoBuf) key on the tone the buffer holds at echoBuf,    *)
(* with the default isJam                                                  *)
(***************************************************************************)
keyOnFMEcho(C, echoBuf) ==
    LET td == C.fm.baseTone[echoBuf + 1]
    IN IF td.octave = -1 THEN C ELSE keyOnFM(C, td.note, td.octave, td.pitch, FALSE)

keyOnSSGEcho(C, echoBuf) ==
    LET td == C.ssg.baseTone[echoBuf + 1]
    IN IF td.octave = -1 THEN C ELSE keyOnSSG(C, td.note, td.octave, td.pitch, FALSE)

keyOnADPCMEcho(C, echoBuf) ==
    LET td == C.adpcm.baseTone[echoBuf + 1]
    IN IF td.octave = -1 THEN C ELSE keyOnADPCM(C, td.note, td.octave, td.pitch, FALSE)

(***************************************************************************)
(* The drum channel 0 and the key-on and key-off flags of the drums.       *)
(***************************************************************************)
initDrum ==
    [isMute |-> FALSE, keyOnFlag |-> 0, keyOffFlag |-> 0, vol |-> 31, tmpVol |-> -1,
     pan |-> 3]

setVolumeDrum(C, volume) ==
    IF volume > 31 THEN C
    ELSE [setRegister(C, 24, uint8(BitOr(C.drum.pan * 64, volume)))
             EXCEPT !.drum.vol = volume, !.drum.tmpVol = -1]

setTemporaryVolumeDrum(C, volume) ==
    IF volume > 31 THEN C
    ELSE [setRegister(C, 24, uint8(BitOr(C.drum.pan * 64, volume)))
             EXCEPT !.drum.tmpVol = volume]

\* a key-on flag request that does not look at the mute state
setKeyOnFlagDrumOfMuted(C) ==
    LET C1 == IF C.drum.tmpVol # -1 THEN setVolumeDrum(C, C.drum.vol) ELSE C
    IN [C1 EXCEPT !.drum.keyOnFlag = BitOr(@, 1)]

setKeyOnFlagDrum(C) ==
    IF C.drum.isMute THEN C
    ELSE LET C1 == IF C.drum.tmpVol # -1 THEN setVolumeDrum(C, C.drum.vol) ELSE C
         IN [C1 EXCEPT !.drum.keyOnFlag = BitOr(@, 1)]

setKeyOffFlagDrum(C) == [C EXCEPT !.drum.keyOffFlag = BitOr(@, 1)]

updateKeyOnOffStatusDrum(C) ==
    LET C1 == IF C.drum.keyOnFlag # 0
              THEN [setRegister(C, 16, C.drum.keyOnFlag) EXCEPT !.drum.keyOnFlag = 0]
              ELSE C
    IN IF C1.drum.keyOffFlag # 0
       THEN [setRegister(C1, 16, BitOr(128, C1.drum.keyOffFlag))
                EXCEPT !.drum.keyOffFlag = 0]
       ELSE C1

setMuteDrumState(C, isMute) ==
    LET C1 == [C EXCEPT !.drum.isMute = isMute]
    IN IF isMute THEN updateKeyOnOffStatusDrum(setKeyOffFlagDrum(C1)) ELSE C1

(***************************************************************************)
(* ADPCM sample storage. dramSize_ is 262144 in the program; the sessions   *)
(* have a DRAM of DramSize bytes. size_t is SizeBits wide here, its largest *)
(* value far above the limit as in the program.                            *)
(***************************************************************************)
size_t(v) == v % (2 ^ SizeBits)

\* size_t dramLim = (dramSize_ - 1) >> 5
dramLim == size_t(DramSize - 1) \div 32

\* OPNAController::clearSamplesADPCM
clearSamplesADPCM(C) == [C EXCEPT !.adpcm.storePoint = 0]

\* for (size_t i = 0; i < size; ++i) opna_->setRegister(0x108, sample[i])
writeSample(C, sample) ==
    IF sample = <<>> THEN C
    ELSE [C EXCEPT !.regs[264] = sample[Len(sample)],
                   !.writes = @ \o [i \in 1..Len(sample) |-> <<264, sample[i]>>]]

\* the stop address storeSampleADPCM computes
stopAddressOf(startAddress, sample) ==
    LET stopAddress == size_t(startAddress + (size_t(Len(sample) - 1) \div 32))
    IN IF stopAddress < dramLim THEN stopAddress ELSE dramLim

\* OPNAController::storeSampleADPCM: the members and registers afterwards
storeSampleADPCM(C, sample) ==
    LET C1 == setRegister(setRegister(setRegister(setRegister(C,
                  272, 128), 256, 97), 256, 96), 257, 2)
        C2 == setRegister(setRegister(C1, 268, dramLim % 256),
                          269, (dramLim \div 256) % 256)
        startAddress == C.adpcm.storePoint
        stopAddress == stopAddressOf(startAddress, sample)
        C3 == setRegister(setRegister(C2, 258, startAddress % 256),
                          259, (startAddress \div 256) % 256)
        C4 == setRegister(setRegister(C3, 260, stopAddress % 256),
                          261, (stopAddress \div 256) % 256)
        C5 == writeSample([C4 EXCEPT !.adpcm.storePoint = size_t(stopAddress + 1)],
                          sample)
        C6 == IF C.adpcm.storePoint < dramLim THEN C5 ELSE C2
    IN setRegister(setRegister(C6, 256, 0), 272, 128)

\* OPNAController::storeSampleADPCM: the addresses returned, std::vector<size_t>
\* addrs(2) unless the sample was stored
storeSampleADPCMAddrs(C, sample) ==
    IF C.adpcm.storePoint < dramLim
    THEN [start |-> C.adpcm.storePoint,
          stop |-> stopAddressOf(C.adpcm.storePoint, sample)]
    ELSE [start |-> 0, stop |-> 0]

(***************************************************************************)
(* Direct register set                                                     *)
(***************************************************************************)
\* OPNAController::sendRegisterAddress
sendRegisterAddress(C, bank, address) ==
    LET a == bank * 256 + address
        buf == C.registerSetBuf
    IN IF buf = <<>> \/ buf[Len(buf)].hasCompleted
       THEN [C EXCEPT !.registerSetBuf =
                Append(@, [address |-> a, value |-> 0, hasCompleted |-> FALSE])]
       ELSE [C EXCEPT !.registerSetBuf[Len(buf)].address = a]

\* OPNAController::sendRegisterValue
sendRegisterValue(C, value) ==
    LET buf == C.registerSetBuf
    IN IF buf # <<>>
       THEN [C EXCEPT !.registerSetBuf[Len(buf)].value = value,
                      !.registerSetBuf[Len(buf)].hasCompleted = TRUE]
       ELSE C

\* for (auto& unit : registerSetBuf_) opna_->setRegister(unit.address, unit.value)
RECURSIVE setRegisters(_, _)
setRegisters(C, units) ==
    IF units = <<>> THEN C
    ELSE setRegisters(setRegister(C, Head(units).address, Head(units).value),
                      Tail(units))

\* the units of the buffer that are the last of their address
LastOfAddress(units) ==
    SelectSeq([i \in 1..Len(units) |->
                  [address |-> units[i].address, value |-> units[i].value,
                   last |-> \A j \in (i + 1)..Len(units) :
                               units[j].address # units[i].address]],
              LAMBDA u : u.last)

updateRegisterStatesCoalescing(C) ==
    LET C1 == updateKeyOnOffStatusDrum(C)
        buf == C1.registerSetBuf
        units == IF buf # <<>> /\ ~buf[Len(buf)].hasCompleted
                 THEN SubSeq(buf, 1, Len(buf) - 1) ELSE buf
    IN [setRegisters(C1, LastOfAddress(units)) EXCEPT !.registerSetBuf = <<>>]

\* OPNAController::updateRegisterStates
updateRegisterStates(C) ==
    LET C1 == updateKeyOnOffStatusDrum(C)
        buf == C1.registerSetBuf
        units == IF buf # <<>> /\ ~buf[Len(buf)].hasCompleted
                 THEN SubSeq(buf, 1, Len(buf) - 1) ELSE buf
    IN [setRegisters(C1, units) EXCEPT !.registerSetBuf = <<>>]

(***************************************************************************)
(* Stream samples: the output history, written by the thread that renders  *)
(* and read by the thread that draws it. A frame stands for the two        *)
(* int16_t of a stereo sample.                                             *)
(***************************************************************************)
Frames == {1, 2}

\* the constructor: both buffers zeroed, outputHistoryIndex_ = 0; renderPc and
\* consumerPc are the positions of the two threads, container what
\* getOutputHistory copied last
initStream ==
    [outputHistory |-> [i \in 1..HistorySize |-> 0],
     outputHistoryReady |-> [i \in 1..HistorySize |-> 0],
     outputHistoryIndex |-> 0,
     mutex |-> "free", renderPc |-> "idle", consumerPc |-> "idle",
     container |-> [i \in 1..HistorySize |-> 0], skipped |-> FALSE]

\* OPNAController::fillOutputHistory up to the update of the write position:
\* outputs are the last nSamples frames of what opna_->mix rendered
fillOutputHistory(st, outputs) ==
    LET nSamples == Len(outputs)
        historyIndex == st.outputHistoryIndex
        backCapacity == HistorySize - historyIndex
        nBack == IF nSamples < backCapacity THEN nSamples ELSE backCapacity
        toBack == [i \in 1..HistorySize |->
                    IF i > historyIndex /\ i <= historyIndex + nBack
                    THEN outputs[i - historyIndex] ELSE st.outputHistory[i]]
        toFront == [i \in 1..HistorySize |->
                    IF i <= nSamples - nBack THEN outputs[nBack + i] ELSE toBack[i]]
    IN [st EXCEPT !.outputHistory = toFront,
                  !.outputHistoryIndex = (historyIndex + nSamples) % HistorySize]

\* OPNAController::getStreamSamples up to the try_to_lock of fillOutputHistory
getStreamSamples(st, container) ==
    LET nSamples == Len(container)
        nHistory == IF nSamples < HistorySize THEN nSamples ELSE HistorySize
    IN fillOutputHistory(st, SubSeq(container, nSamples - nHistory + 1, nSamples))

\* OPNAController::transferReadyHistory
transferReadyHistory(st) ==
    LET index == st.outputHistoryIndex
    IN [st EXCEPT !.outputHistoryReady =
            [i \in 1..HistorySize |->
                IF i <= HistorySize - index THEN st.outputHistory[index + i]
                ELSE st.outputHistory[i - (HistorySize - index)]]]

\* std::lock_guard<std::mutex> lock(outputHistoryReadyMutex_): a lock that
\* waits, it has an outcome only once the mutex is free
lock(mutex) == IF mutex = "free" THEN {TRUE} ELSE {}

try_to_lockWaiting(mutex) == lock(mutex)

\* std::unique_lock<std::mutex> lock(outputHistoryReadyMutex_, std::try_to_lock):
\* whether the lock is owned afterwards. try_lock may also fail on a free mutex
try_to_lock(mutex) == IF mutex = "free" THEN {TRUE, FALSE} ELSE {FALSE}

\* the registers after the chip reset and the writes of initChip()
initRegs ==
    [a \in Regs |-> IF a = 7 THEN 255 ELSE IF a = 256 THEN 161
                    ELSE IF a = 17 THEN 63 ELSE IF a = 24 THEN 223
                    ELSE IF a = 268 THEN dramLim % 256
                    ELSE IF a = 269 THEN (dramLim \div 256) % 256 ELSE -1]

OPNAController(env, type, ch) ==
    [fm |-> initFM(env, type, ch), ssg |-> initSSG, adpcm |-> initADPCM, drum |-> initDrum,
     regs |-> initRegs, registerSetBuf |-> <<>>, writes |-> <<>>]

\* initFM on an existing controller: the members of the channel it assigns.
\* The envelope stands for the instrument of the channel, set anew with the
\* same instrument after a reset; the mute state and the operator enables
\* are assigned by the constructor alone
initFMAgain(f) ==
    [f EXCEPT !.isKeyOn = FALSE, !.hasKeyOnBefore = FALSE,
              !.baseTone = <<NoTone, NoTone, NoTone, NoTone>>, !.keyTone = NoTone,
              !.hasResetEnv = FALSE, !.hasPreSetTickEvent = FALSE,
              !.needToneSet = FALSE, !.prtm = 0, !.isTonePrtm = FALSE,
              !.vibIt = NoIt, !.treIt = NoIt, !.volSld = 0, !.sumVolSld = 0,
              !.isDRCtrl = {}]

\* initSSG on an existing controller
initSSGAgain(g) ==
    [g EXCEPT !.mixer = 255, !.isKeyOn = FALSE, !.hasKeyOnBefore = FALSE,
              !.baseTone = <<NoTone, NoTone, NoTone, NoTone>>, !.keyTone = NoTone,
              !.isTone = FALSE, !.baseVol = 15, !.hasPreSetTickEvent = FALSE,
              !.wf = "UNSET", !.needEnvSet = FALSE, !.needMixSet = FALSE,
              !.needToneSet = FALSE, !.prtm = 0, !.isTonePrtm = FALSE,
              !.vibIt = NoIt, !.treIt = NoIt, !.volSld = 0, !.sumVolSld = 0]

\* initADPCM on an existing controller
initADPCMAgain(a) ==
    [a EXCEPT !.hasInst = FALSE, !.isKeyOn = FALSE, !.hasKeyOnBefore = FALSE,
              !.baseTone = <<NoTone, NoTone, NoTone, NoTone>>, !.keyTone = NoTone,
              !.baseVol = 255, !.pan = 192, !.startAddr = 0, !.stopAddr = 0,
              !.hasPreSetTickEvent = FALSE, !.needEnvSet = FALSE,
              !.needToneSet = FALSE, !.prtm = 0, !.isTonePrtm = FALSE,
              !.vibIt = NoIt, !.treIt = NoIt]

\* initDrum on an existing controller
initDrumAgain(d) ==
    [d EXCEPT !.keyOnFlag = 0, !.keyOffFlag = 0, !.vol = 31, !.tmpVol = -1, !.pan = 3]

\* a reset that leaves the effects of the channels as they are
resetKeepingEffects(C) ==
    [C EXCEPT !.fm.isKeyOn = FALSE, !.ssg.isKeyOn = FALSE, !.adpcm.isKeyOn = FALSE,
              !.regs = initRegs, !.writes = <<>>]

\* OPNAController::reset(): the chip is reset, initChip() initialises the
\* members again
reset(C) ==
    [fm |-> initFMAgain(C.fm), ssg |-> initSSGAgain(C.ssg),
     adpcm |-> initADPCMAgain(C.adpcm), drum |-> initDrumAgain(C.drum),
     regs |-> initRegs, registerSetBuf |-> <<>>, writes |-> <<>>]

\* the controller as one value
Ctl ==
    [fm |-> fm, ssg |-> ssg, adpcm |-> adpcm, drum |-> drum, regs |-> regs,
     registerSetBuf |-> registerSetBuf, writes |-> <<>>]

\* no call yet: keyed lists the tones of the key-ons the channel of the session
\* accepted since its initialisation, the newest first; max is the number of
\* calls of the session; returned lists what the storeSampleADPCM calls since
\* the last clearSamplesADPCM returned
NoCall == [op |-> "none", src |-> "NONE", isJam |-> FALSE, processed |-> FALSE,
           writes |-> <<>>, n |-> 0, keyed |-> <<>>, returned |-> <<>>,
           max |-> MaxCalls]


(***************************************************************************)
(* The operations of the manager as actions.                               *)
(***************************************************************************)
Orders == {o \in [1..PoolSize -> Slots] : \A i, j \in 1..PoolSize : o[i] = o[j] => i = j}

Exists(n) == n \in InstNums /\ insts[n] # NoInst

Kinds == {"op", "edit"}
\* a mixed session starts from the empty manager and uses every sound source;
\* an fm session starts from FM instruments that setter calls have configured;
\* a many session starts with an instrument at every number
Srcs == IF workload = "fm" THEN {"FM"} ELSE SoundSources
MaxOf(kind) ==
    IF kind = "edit" THEN MaxEdits
    ELSE IF workload = "fm" THEN MaxOpsFM
    ELSE IF workload = "many" THEN MaxOpsMany ELSE MaxOps

\* no out-of-range access has happened and the session has operations left
Running == fault = "none" /\ used["op"] < MaxOf("op")

\* the manager after an operation; an edit is an operation too
Becomes(S, kind, l) ==
    /\ used[kind] < MaxOf(kind)
    /\ insts' = S.insts
    /\ pools' = S.pools
    /\ regardingUnedited' = S.unedited
    /\ fault' = S.fault
    /\ last' = l
    /\ used' = [k \in Kinds |-> IF k \in {"op", kind} THEN used[k] + 1 ELSE used[k]]
    /\ UNCHANGED <<workload, ctlVars>>

NoRet == [op |-> "none"]

AddInstrument ==
    \E instNum \in -1..NumInsts, source \in Srcs :
        /\ Running
        /\ Becomes(addInstrument(Mgr, instNum, source), "op",
                   [op |-> "addInstrument", inst |-> instNum])

CloneInstrument ==
    \E cloneInstNum \in InstNums, refInstNum \in InstNums :
        /\ Running
        /\ Exists(refInstNum)
        /\ cloneInstNum # refInstNum
        /\ Becomes(cloneInstrument(Mgr, cloneInstNum, refInstNum), "op",
                   [op |-> "cloneInstrument", inst |-> cloneInstNum, ref |-> refInstNum,
                    prov |-> provisionalSlots(Mgr, insts[refInstNum].src)])

\* the iteration orders of the unordered_map of a deep clone that can differ
\* in their outcome: one when the reference has fewer than two keys
OrdersOf(refInst) ==
    LET fs == {f \in Fields(refInst.src) : PerOperatorType(f.pool) /\ refInst.en[f]}
    IN IF Cardinality({refInst.num[f] : f \in fs}) < 2
       THEN {[i \in 1..PoolSize |-> i - 1]}
       ELSE Orders

DeepCloneInstrument ==
    \E cloneInstNum \in InstNums, refInstNum \in InstNums :
        /\ Running
        /\ Exists(refInstNum)
        /\ cloneInstNum # refInstNum
        /\ \E order \in OrdersOf(insts[refInstNum]), ub \in UBOutcomes :
              \* the outcome of an out-of-range access is a choice only
              \* where there is one
              /\ \/ ub = "crash"
                 \/ deepCloneInstrument(Mgr, cloneInstNum, refInstNum, order,
                                        "crash").fault # "none"
              /\ Becomes(deepCloneInstrument(Mgr, cloneInstNum, refInstNum, order, ub),
                         "op",
                         [op |-> "deepCloneInstrument", inst |-> cloneInstNum,
                          ref |-> refInstNum,
                          prov |-> provisionalSlots(Mgr, insts[refInstNum].src)])

RemoveInstrument ==
    \E instNum \in InstNums :
        /\ Running
        /\ Exists(instNum)
        /\ Becomes(removeInstrument(Mgr, instNum), "op",
                   [op |-> "removeInstrument", inst |-> instNum])

SetInstrumentProperty ==
    \E instNum \in InstNums, num \in Slots :
        /\ Running
        /\ Exists(instNum)
        /\ \E f \in Fields(insts[instNum].src) :
              /\ num # insts[instNum].num[f]
              /\ Becomes(setInstrumentProperty(Mgr, instNum, f, num), "op",
                         [op |-> "setInstrumentProperty"])

SetInstrumentPropertyEnabled ==
    \E instNum \in InstNums, enabled \in BOOLEAN :
        /\ Running
        /\ Exists(instNum)
        /\ \E f \in Fields(insts[instNum].src) :
              /\ ~AlwaysEnabled(f.pool)
              /\ enabled # insts[instNum].en[f]
              /\ Becomes(setInstrumentPropertyEnabled(Mgr, instNum, f, enabled), "op",
                         [op |-> "setInstrumentPropertyEnabled"])

SetInstrumentFMEnvelopeResetEnabled ==
    \E instNum \in InstNums, enabled \in BOOLEAN :
        /\ Running
        /\ Exists(instNum)
        /\ \E op \in Range(EnvResetTypes(insts[instNum].src)) :
              /\ enabled # insts[instNum].rst[op]
              /\ Becomes(setInstrumentFMEnvelopeResetEnabled(Mgr, instNum, op, enabled),
                         "op", [op |-> "setInstrumentFMEnvelopeResetEnabled"])

\* set<Kind>Parameter, add/set<Kind>SequenceCommand, ...: an edit of a payload
SetParameter ==
    \E pool \in UNION {Range(PoolsOf(src)) : src \in Srcs}, slot \in Slots, v \in Vals :
        \E param \in ParamsOf(pool) :
            /\ Running
            /\ setParameterValue(pool, pools[pool][slot].val, param, v)
                  # pools[pool][slot].val
            /\ Becomes([Mgr EXCEPT !.pools[pool][slot].val =
                                       setParameterValue(pool, @, param, v)],
                       "edit", [op |-> "setParameter"])

\* the slots of the pools ps that are edited and have no user when a clear
\* operation is called
UnusedEdited(ps) ==
    {e \in ps \X Slots : /\ pools[e[1]][e[2]].users = {}
                         /\ isEdited(e[1], pools[e[1]][e[2]].val)}

ClearUnusedInstrumentProperties ==
    /\ Running
    /\ Becomes(clearUnusedInstrumentProperties(Mgr), "op",
               [op |-> "clearUnusedInstrumentProperties", edited |-> UnusedEdited(Pools)])

ClearUnusedWaveformsADPCM ==
    /\ Running
    /\ Becomes(clearUnusedWaveformsADPCM(Mgr), "op",
               [op |-> "clearUnusedWaveformsADPCM", edited |-> UnusedEdited({"wfADPCM"})])

SetPropertyFindMode ==
    \E unedited \in BOOLEAN :
        /\ Running
        /\ unedited # regardingUnedited
        /\ Becomes([Mgr EXCEPT !.unedited = unedited], "op",
                   [op |-> "setPropertyFindMode"])

CheckDuplicateInstruments ==
    /\ Running
    /\ Becomes(Mgr, "op", [op |-> "checkDuplicateInstruments",
                          ret |-> checkDuplicateInstruments(Mgr)])

GetEntriedIndices ==
    \E pool \in UNION {Range(PoolsOf(src)) : src \in Srcs} :
        /\ Running
        /\ Becomes(Mgr, "op", [op |-> "getEntriedIndices", pool |-> pool,
                               ret |-> getEntriedIndices(Mgr, pool)])

\* InstrumentsManager::InstrumentsManager(unedited)
Constructed(unedited) ==
    [insts |-> clearAll.insts, pools |-> clearAll.pools, unedited |-> unedited,
     fault |-> "none"]

(***************************************************************************)
(* The three SSG channels: the mixer, the noise period, the note slide.    *)
(***************************************************************************)
SSGChannels == 0..2
NODATA == -1
NoisePeriods == {5, 7}
SSGWaveformTypes == {"SQUARE", "TRIANGLE"}

\* SSGNoiseFlag
SSGNoiseFlag(ch) == 2 ^ (ch + 3)

\* OPNAController::initSSG, the members named above; the registers 0x06 and
\* 0x07 are as initSSG leaves them (0x06 is not written)
initSSGs ==
    [mixerSSG |-> 255,
     tnSSG |-> [ch \in SSGChannels |->
                   [isTone |-> FALSE, isNoise |-> FALSE, noisePeriod |-> NODATA]],
     wfSSG |-> [ch \in SSGChannels |-> "UNSET"],
     needMixSet |-> [ch \in SSGChannels |-> FALSE],
     wfIt |-> [ch \in SSGChannels |-> FALSE],
     tnIt |-> [ch \in SSGChannels |-> FALSE],
     nsIt |-> [ch \in SSGChannels |-> FALSE],
     noteSldSSGSetFlag |-> FALSE,
     regs |-> [a \in {6, 7} |-> IF a = 7 THEN 255 ELSE -1],
     slid |-> [ch \in SSGChannels |-> FALSE],
     last |-> [op |-> "none"]]

setRegisterSSGs(M, address, value) == [M EXCEPT !.regs[address] = value]

\* the waveform types whose tone is made by the hardware envelope
IsBuzz(type) == type \in {"TRIANGLE", "SAW", "INVSAW"}

\* OPNAController::writeToneNoiseSSGToRegisterNoReference(ch)
writeToneNoiseNoReference(M, ch) ==
    LET M1 == IF IsBuzz(M.wfSSG[ch])
              THEN [M EXCEPT !.mixerSSG = BitOr(@, SSGToneFlag(ch)),
                             !.tnSSG[ch].isNoise = FALSE]
              ELSE [M EXCEPT !.mixerSSG = ClearFlag(@, SSGToneFlag(ch)),
                             !.tnSSG[ch].isTone = TRUE]
    IN [setRegisterSSGs(M1, 7, M1.mixerSSG) EXCEPT !.needMixSet[ch] = FALSE]

\* the tone flag of writeToneNoiseSSGToRegister: off for the waveforms of the
\* hardware envelope, on for the others
mixToneOfWaveform(M, ch) ==
    IF IsBuzz(M.wfSSG[ch])
    THEN IF M.tnSSG[ch].isTone
         THEN [M EXCEPT !.mixerSSG = BitOr(@, SSGToneFlag(ch)),
                        !.tnSSG[ch].isTone = FALSE]
         ELSE M
    ELSE IF ~M.tnSSG[ch].isTone
         THEN [M EXCEPT !.mixerSSG = ClearFlag(@, SSGToneFlag(ch)),
                        !.tnSSG[ch].isTone = TRUE]
         ELSE M

mixToneOff(M, ch) ==
    IF M.tnSSG[ch].isTone
    THEN [M EXCEPT !.mixerSSG = BitOr(@, SSGToneFlag(ch)), !.tnSSG[ch].isTone = FALSE]
    ELSE M

mixNoiseOn(M, ch) ==
    IF ~M.tnSSG[ch].isNoise
    THEN [M EXCEPT !.mixerSSG = ClearFlag(@, SSGNoiseFlag(ch)),
                   !.tnSSG[ch].isNoise = TRUE]
    ELSE M

mixNoiseOff(M, ch) ==
    IF M.tnSSG[ch].isNoise
    THEN [M EXCEPT !.mixerSSG = BitOr(@, SSGNoiseFlag(ch)),
                   !.tnSSG[ch].isNoise = FALSE,
                   !.tnSSG[ch].noisePeriod = NODATA]
    ELSE M

\* if (tnSSG_[ch].noisePeriod_ != p) { setRegister(0x06, 31 - p);
\* tnSSG_->noisePeriod_ = p; }: tnSSG_-> is the element of channel 0
writeNoisePeriod(M, ch, p) ==
    IF M.tnSSG[ch].noisePeriod # p
    THEN [setRegisterSSGs(M, 6, uint8(31 - p)) EXCEPT !.tnSSG[0].noisePeriod = p]
    ELSE M

\* if (mixerSSG_ != prevMixer) setRegister(0x07, mixerSSG_);
\* needMixSetSSG_[ch] = false;
writeMixerIfChanged(M, ch, prevMixer) ==
    [(IF M.mixerSSG # prevMixer THEN setRegisterSSGs(M, 7, M.mixerSSG) ELSE M)
        EXCEPT !.needMixSet[ch] = FALSE]

\* OPNAController::writeToneNoiseSSGToRegister(ch, seqPos), type being
\* tnItSSG_[ch]->getCommandType(): 0 is tone, 1.. noise, 33.. tone and noise
writeToneNoiseSSGToRegister(M, ch, seqPos, type) ==
    IF seqPos = -1
    THEN IF M.needMixSet[ch] THEN writeToneNoiseNoReference(M, ch) ELSE M
    ELSE IF type = -1 THEN M
    ELSE IF type = 0
    THEN writeMixerIfChanged(mixNoiseOff(mixToneOfWaveform(M, ch), ch), ch, M.mixerSSG)
    ELSE IF type > 32
    THEN writeMixerIfChanged(
             writeNoisePeriod(mixNoiseOn(mixToneOfWaveform(M, ch), ch), ch, type - 33),
             ch, M.mixerSSG)
    ELSE writeMixerIfChanged(
             writeNoisePeriod(mixNoiseOn(mixToneOff(M, ch), ch), ch, type - 1),
             ch, M.mixerSSG)

\* OPNAController::writeSquareWaveform(ch), the waveform type and needMixSetSSG_
writeSquareWaveformSSGs(M, ch) ==
    IF M.wfSSG[ch] = "SQUARE" THEN M
    ELSE [M EXCEPT !.needMixSet[ch] =
                       @ \/ M.wfSSG[ch] \notin {"SQM_TRIANGLE", "SQM_SAW", "SQM_INVSAW"},
                   !.wfSSG[ch] = "SQUARE"]

\* OPNAController::writeWaveformSSGToRegister(ch, seqPos), the cases SQUARE
\* and TRIANGLE, the waveform type and needMixSetSSG_; isKeyOn is
\* isKeyOnSSG_[ch]
writeWaveformSSGToRegister(M, ch, seqPos, type) ==
    IF seqPos = -1 THEN M
    ELSE IF type = "SQUARE" THEN writeSquareWaveformSSGs(M, ch)
    ELSE [M EXCEPT !.needMixSet[ch] =
                       @ \/ M.wfSSG[ch] \in {"UNSET", "SQUARE", "SQM_TRIANGLE",
                                              "SQM_SAW", "SQM_INVSAW"},
                   !.wfSSG[ch] = "TRIANGLE"]

\* if (tnItSSG_[ch]) writeToneNoiseSSGToRegister(ch, tnItSSG_[ch]->front() or
\* ->next()); else if (needMixSetSSG_[ch])
\* writeToneNoiseSSGToRegisterNoReference(ch);
stepToneNoiseSSGs(M, ch, seqPos, type) ==
    IF M.tnIt[ch] THEN writeToneNoiseSSGToRegister(M, ch, seqPos, type)
    ELSE IF M.needMixSet[ch] THEN writeToneNoiseNoReference(M, ch)
    ELSE M

\* OPNAController::setFrontSSGSequences(ch), the waveform and the tone/noise
\* step; wf and tn are what the iterators report at their front
setFrontSSGs(M, ch, wf, tn) ==
    stepToneNoiseSSGs(
        IF M.wfIt[ch] THEN writeWaveformSSGToRegister(M, ch, wf.pos, wf.type)
        ELSE writeSquareWaveformSSGs(M, ch),
        ch, tn.pos, tn.type)

\* OPNAController::tickEventSSG(ch) of a channel that is not muted and has no
\* pre-set tick, the waveform and the tone/noise step
tickEventSSGs(M, ch, wf, tn) ==
    stepToneNoiseSSGs(
        IF M.wfIt[ch] THEN writeWaveformSSGToRegister(M, ch, wf.pos, wf.type) ELSE M,
        ch, tn.pos, tn.type)

\* OPNAController::keyOnSSG(ch, ...) of a channel that is not muted: the note
\* slide, then setFrontSSGSequences
keyOnSSGs(M, ch, wf, tn) ==
    setFrontSSGs([M EXCEPT !.nsIt[ch] = @ /\ M.noteSldSSGSetFlag,
                           !.noteSldSSGSetFlag = FALSE],
                 ch, wf, tn)

\* OPNAController::setNoteSlideSSG(ch, speed, seminote)
setNoteSlideSSG(M, ch, seminote) ==
    IF seminote # 0
    THEN [M EXCEPT !.nsIt[ch] = TRUE, !.noteSldSSGSetFlag = TRUE]
    ELSE [M EXCEPT !.nsIt[ch] = FALSE]

\* OPNAController::setToneNoiseMixSSG(ch, value)
setToneNoiseMixSSG(M, ch, value) ==
    LET isTone == value % 2 = 1
        isNoise == (value \div 2) % 2 = 1
        M1 == [M EXCEPT !.tnSSG[ch].isTone = isTone, !.tnSSG[ch].isNoise = isNoise,
                        !.mixerSSG =
                            LET t == IF isTone THEN ClearFlag(@, SSGToneFlag(ch))
                                     ELSE BitOr(@, SSGToneFlag(ch))
                            IN IF isNoise THEN ClearFlag(t, SSGNoiseFlag(ch))
                               ELSE BitOr(t, SSGNoiseFlag(ch))]
    IN [setRegisterSSGs(M1, 7, M1.mixerSSG) EXCEPT !.tnIt[ch] = FALSE]

\* OPNAController::setNoisePitchSSG(ch, pitch)
setNoisePitchSSG(M, ch, pitch) ==
    setRegisterSSGs([M EXCEPT !.tnSSG[ch].noisePeriod = pitch], 6, uint8(31 - pitch))

\* OPNAController::setInstrumentSSG(ch, inst), the waveform and the tone/noise
\* iterator of the instrument
setInstrumentSSGs(M, ch, waveformEnabled, toneNoiseEnabled) ==
    [M EXCEPT !.wfIt[ch] = waveformEnabled, !.tnIt[ch] = toneNoiseEnabled]

\* the controller of a session on the SSG channels: in a noise session every
\* channel has an instrument with a tone/noise macro, in a mixer session
\* channel 0 has one with a waveform macro and channel 1 one with a
\* tone/noise macro, in a slide session no channel has an instrument
SSGsOf(w) ==
    IF w = "NOISE"
    THEN {[initSSGs EXCEPT !.tnIt = [ch \in SSGChannels |-> TRUE]]}
    ELSE IF w = "MIXER"
    THEN {setInstrumentSSGs(setInstrumentSSGs(initSSGs, 0, TRUE, FALSE), 1, FALSE, TRUE)}
    ELSE {initSSGs}

(***************************************************************************)
(* The VGM export container, chip::VgmExportContainer.  buf_ is a sequence *)
(* of bytes; the target is the pair of its FM and SSG parts.               *)
(***************************************************************************)
VgmExportContainer(target, intrRate) ==
    [target |-> target, lastWait |-> 0, totalSampCnt |-> 0, intrRate |-> intrRate,
     isSetLoop |-> FALSE, loopPoint |-> 0, buf |-> <<>>, last |-> "none"]

\* push_back(0x61), push_back(n & 0x00ff), push_back(n >> 8) into a vector of
\* uint8_t
pushWait(buf, n) == buf \o <<97, n % 256, (n \div 256) % 256>>

\* if (tmp) push_back(0x70 | (tmp - 1)), tmp being at most 16
pushShortWait(buf, tmp) == IF tmp # 0 THEN Append(buf, 112 + (tmp - 1)) ELSE buf

\* one round of the loop of setWait at 50 interrupts a second: the buffer
\* and the samples taken off lastWait_
setWaitStep50(buf, lastWait) ==
    IF lastWait > 65535
    THEN LET tmp == lastWait - 65535
             sub == IF tmp <= 882 THEN 64653 + tmp
                    ELSE IF tmp <= 1764 THEN 63771 + tmp
                    ELSE IF tmp <= 2646 THEN 62889 + tmp
                    ELSE 65535
         IN  [buf |-> pushWait(buf, sub), sub |-> sub]
    ELSE [buf |-> IF lastWait <= 16 THEN Append(buf, 112 + (lastWait - 1))
                  ELSE IF lastWait > 2646 THEN pushWait(buf, lastWait)
                  ELSE IF lastWait = 2646 THEN buf \o <<99, 99, 99>>
                  ELSE IF 1764 <= lastWait /\ lastWait <= 1780
                  THEN pushShortWait(buf \o <<99, 99>>, lastWait - 1764)
                  ELSE IF 882 <= lastWait /\ lastWait <= 898
                  THEN pushShortWait(buf \o <<99>>, lastWait - 882)
                  ELSE pushWait(buf, lastWait),
          sub |-> lastWait]

\* the same at 60 interrupts a second
setWaitStep60(buf, lastWait) ==
    IF lastWait > 65535
    THEN LET tmp == lastWait - 65535
             sub == IF tmp <= 735 THEN 64800 + tmp
                    ELSE IF tmp <= 1470 THEN 64065 + tmp
                    ELSE IF tmp <= 2205 THEN 63330 + tmp
                    ELSE 65535
         IN  [buf |-> pushWait(buf, sub), sub |-> sub]
    ELSE [buf |-> IF lastWait <= 16 THEN Append(buf, 112 + (lastWait - 1))
                  ELSE IF lastWait > 2205 THEN pushWait(buf, lastWait)
                  ELSE IF lastWait = 2205 THEN buf \o <<98, 98, 98>>
                  ELSE IF 1470 <= lastWait /\ lastWait <= 1486
                  THEN pushShortWait(buf \o <<98, 98>>, lastWait - 1470)
                  ELSE IF 735 <= lastWait /\ lastWait <= 751
                  THEN pushShortWait(buf \o <<98>>, lastWait - 735)
                  ELSE pushWait(buf, lastWait),
          sub |-> lastWait]

\* the same at any other rate: sub = lastWait_ follows both branches
setWaitStepOther(buf, lastWait) ==
    [buf |-> IF lastWait > 65535 THEN pushWait(buf, 65535) ELSE pushWait(buf, lastWait),
     sub |-> lastWait]

setWaitStep(intrRate, buf, lastWait) ==
    IF intrRate = 50 THEN setWaitStep50(buf, lastWait)
    ELSE IF intrRate = 60 THEN setWaitStep60(buf, lastWait)
    ELSE setWaitStepOther(buf, lastWait)

afterWaitStep(V, step) == [V EXCEPT !.buf = step.buf, !.lastWait = @ - step.sub]

\* while (lastWait_) { ...; lastWait_ -= sub; }
RECURSIVE setWaitLoop(_)
setWaitLoop(V) ==
    IF V.lastWait = 0 THEN V
    ELSE setWaitLoop(afterWaitStep(V, setWaitStep(V.intrRate, V.buf, V.lastWait)))

moveLoopPoint(V) == IF ~V.isSetLoop THEN [V EXCEPT !.loopPoint = Len(V.buf)] ELSE V

setWait(V) == moveLoopPoint(setWaitLoop(V))

\* if (lastWait_) setWait();
flushWait(V) == IF V.lastWait # 0 THEN setWait(V) ELSE V

cmdSsg(target) ==
    IF target.ssg # "InternalSsg" THEN 160
    ELSE IF target.fm = "YM2608" THEN 86
    ELSE IF target.fm = "YM2203" THEN 85
    ELSE 0

cmdFmPortA(target) ==
    IF target.fm = "YM2608" THEN 86
    ELSE IF target.fm = "YM2612" THEN 82
    ELSE IF target.fm = "YM2203" THEN 85
    ELSE 0

cmdFmPortB(target) ==
    IF target.fm = "YM2608" THEN 87
    ELSE IF target.fm = "YM2612" THEN 83
    ELSE 0

\* whether the first port of the chip of the target has the register
compatiblePortA(target, offset, value) ==
    IF offset = 40 THEN ~(target.fm = "YM2203" /\ value % 8 >= 3)
    ELSE IF offset = 41 THEN target.fm = "YM2608"
    ELSE IF (offset \div 16) % 16 = 1 THEN target.fm = "YM2608"
    ELSE TRUE

pushCommand(V, cmd, offset, value) ==
    [V EXCEPT !.buf = @ \o <<cmd, offset % 256, value>>]

recordRegisterChangeFlushed(V, offset, value) ==
    IF cmdSsg(V.target) # 0 /\ offset < 16
    THEN pushCommand(V, cmdSsg(V.target), offset, value)
    ELSE IF cmdFmPortA(V.target) # 0 /\ (offset \div 256) % 2 = 0
    THEN IF compatiblePortA(V.target, offset, value)
         THEN pushCommand(V, cmdFmPortA(V.target), offset, value)
         ELSE V
    ELSE IF cmdFmPortB(V.target) # 0 /\ (offset \div 256) % 2 # 0
    THEN IF offset < 16 => V.target.fm = "YM2608"
         THEN pushCommand(V, cmdFmPortB(V.target), offset, value)
         ELSE V
    ELSE V

recordRegisterChange(V, offset, value) ==
    recordRegisterChangeFlushed(flushWait(V), offset, value)

recordStream(V, nSamples) ==
    [V EXCEPT !.lastWait = @ + nSamples, !.totalSampCnt = @ + nSamples]

setLoopPoint(V) == [flushWait(V) EXCEPT !.isSetLoop = TRUE]

getData(V) == flushWait(V)

getSampleLength(V) == V.totalSampCnt

Targets == {[fm |-> "YM2608", ssg |-> "InternalSsg"], [fm |-> "YM2203", ssg |-> "External"]}
IntrRates == {50, 60, 100}

VgmsOf(w) ==
    IF w = "VGM"
    THEN {VgmExportContainer(target, intrRate) : target \in Targets, intrRate \in IntrRates}
    ELSE {VgmExportContainer([fm |-> "YM2608", ssg |-> "InternalSsg"], 60)}

(***************************************************************************)
(* The Timer of the tick driver.                                           *)
(***************************************************************************)
\* the timer after construction: no thread, the owner outside any call.
\* thread is where the thread of start() stands: "none" (thread_ is not
\* joinable), "test" (at the loop condition), "sleep", "func" (in the
\* callback) or "done" (the lambda has returned, not joined yet).  pc is
\* where the owner stands: "idle" or inside the join of stop().  returned
\* names the call that returned last, invoked counts the callbacks begun,
\* terminated tells that std::terminate was called.
initTimer ==
    [isContinue |-> FALSE, thread |-> "none", pc |-> "idle", returned |-> "none",
     invoked |-> 0, terminated |-> FALSE]

\* Timer::start(); assigning to a joinable thread_ calls std::terminate
start(T) ==
    IF T.thread # "none" THEN [T EXCEPT !.isContinue = TRUE, !.terminated = TRUE]
    ELSE [T EXCEPT !.isContinue = TRUE, !.thread = "test", !.returned = "start"]

\* Timer::stop() that returns without waiting for the thread
stopWithoutJoin(T) == [T EXCEPT !.isContinue = FALSE, !.returned = "stop"]

\* Timer::stop() up to thread_.join(), or up to its return
stop(T) ==
    IF T.isContinue THEN [T EXCEPT !.isContinue = FALSE, !.pc = "join"]
    ELSE [T EXCEPT !.returned = "stop"]

\* thread_.join() returns once the thread has finished
join(T) == [T EXCEPT !.thread = "none", !.pc = "idle", !.returned = "stop"]

\* the steps of the thread: while (isContinue_.load()) { sleep_for; func_(); }
testContinue(T) == [T EXCEPT !.thread = IF T.isContinue THEN "sleep" ELSE "done"]
invokeFunction(T) == [T EXCEPT !.thread = "func", !.invoked = @ + 1]
returnFunction(T) == [T EXCEPT !.thread = "test"]

StartsFrom(S, w, C, c, m) ==
    /\ insts = S.insts
    /\ pools = S.pools
    /\ regardingUnedited = S.unedited
    /\ fault = S.fault
    /\ last = NoRet
    /\ used = [k \in Kinds |-> 0]
    /\ workload = w
    /\ fm = C.fm
    /\ ssg = C.ssg
    /\ adpcm = C.adpcm
    /\ drum = C.drum
    /\ regs = C.regs
    /\ registerSetBuf = C.registerSetBuf
    /\ stream = initStream
    /\ macro = m
    /\ ssgs \in SSGsOf(w)
    /\ vgm \in VgmsOf(w)
    /\ timer = initTimer
    /\ call = c
    /\ replay = [on |-> FALSE, dirty |-> FALSE, fm |-> C.fm, ssg |-> C.ssg,
                 adpcm |-> C.adpcm, regs |-> C.regs, writes |-> <<>>]

StartsWith(S, w, C, c) == StartsFrom(S, w, C, c, NoMacro)

StartsAs(S, w, C) == StartsWith(S, w, C, NoCall)

Init == \E unedited \in BOOLEAN : StartsAs(Constructed(unedited), "mixed", OPNAController(DEF_ENV_CTL, "Standard", 0))

\* an FM instrument's per-type references pointed and enabled by the setters
RECURSIVE configure(_, _, _, _, _)
configure(S, fs, instNum, nums, ens) ==
    IF fs = <<>> THEN S
    ELSE LET f == Head(fs)
             S1 == setInstrumentProperty(S, instNum, f, nums[f])
             S2 == IF ens[f] THEN setInstrumentPropertyEnabled(S1, instNum, f, TRUE)
                   ELSE S1
         IN configure(S2, Tail(fs), instNum, nums, ens)

\* the manager after addInstrument(0, FM), the setter calls of a
\* configuration and, in some sessions, addInstrument(1, FM)
InitFM ==
    \E unedited \in BOOLEAN, second \in BOOLEAN,
       nums \in [Range(FieldsOfPool("arpFM")) -> 0..MaxSetupNum],
       ens \in [Range(FieldsOfPool("arpFM")) -> BOOLEAN] :
        LET S1 == addInstrument(Constructed(unedited), 0, "FM")
            S2 == configure(S1, FieldsOfPool("arpFM"), 0, nums, ens)
            S3 == IF second THEN addInstrument(S2, 1, "FM") ELSE S2
        IN StartsAs(S3, "fm", OPNAController(DEF_ENV_CTL, "Standard", 0))

RECURSIVE addEvery(_, _, _)
addEvery(S, n, srcs) ==
    IF n >= NumInsts THEN S
    ELSE addEvery(addInstrument(S, n, srcs[n]), n + 1, srcs)

\* the manager after addInstrument(n, ...) for every instrument number n: the
\* lower half of the numbers of one sound source, the upper half of another
InitMany ==
    \E unedited \in BOOLEAN, lower \in SoundSources, upper \in SoundSources :
        LET srcs == [n \in InstNums |-> IF 2 * n < NumInsts THEN lower ELSE upper]
        IN StartsAs(addEvery(Constructed(unedited), 0, srcs), "many",
                    OPNAController(DEF_ENV_CTL, "Standard", 0))

Next ==
    \/ AddInstrument
    \/ CloneInstrument
    \/ DeepCloneInstrument
    \/ RemoveInstrument
    \/ SetInstrumentProperty
    \/ SetInstrumentPropertyEnabled
    \/ SetInstrumentFMEnvelopeResetEnabled
    \/ SetParameter
    \/ ClearUnusedInstrumentProperties
    \/ ClearUnusedWaveformsADPCM
    \/ SetPropertyFindMode
    \/ CheckDuplicateInstruments
    \/ GetEntriedIndices

vars == <<imVars, ctlVars>>

Spec == Init /\ [][Next]_vars

SpecFM == InitFM /\ [][Next]_vars

SpecMany == InitMany /\ [][Next]_vars

(***************************************************************************)
(* The calls on the controller as actions.  A session makes its calls on   *)
(* the channel of one sound source.                                        *)
(***************************************************************************)
\* the controller after a call; processed tells whether the call took the
\* path that does its work (not muted, or sounding for a key off)
Wrote(C) ==
    /\ fm' = C.fm
    /\ ssg' = C.ssg
    /\ adpcm' = C.adpcm
    /\ drum' = C.drum
    /\ regs' = C.regs
    /\ registerSetBuf' = C.registerSetBuf
    /\ UNCHANGED <<stream, macro, ssgs, vgm, timer>>

Stored(C, op, src, isJam, processed, keyed) ==
    /\ Wrote(C)
    /\ call' = [op |-> op, src |-> src, isJam |-> isJam, processed |-> processed,
                writes |-> C.writes, n |-> call.n + 1, keyed |-> keyed,
                returned |-> call.returned, max |-> call.max]

Logged(C, op, src, isJam, processed, keyed) ==
    /\ Stored(C, op, src, isJam, processed, keyed)
    /\ UNCHANGED imVars

Called(C, op, src, isJam, processed) ==
    Logged(C, op, src, isJam, processed, IF op = "reset" THEN <<>> ELSE call.keyed)

\* a keyOn call: the channel accepts the tone or ignores the call
CalledKeyOn(C, src, isJam, accepted, tone) ==
    Logged(C, "keyOn", src, isJam, accepted,
           IF accepted THEN <<tone>> \o call.keyed ELSE call.keyed)

Tone(octave, note, pitch) == [octave |-> octave, note |-> note, pitch |-> pitch]

\* a session ends with the call that crashed or ran into undefined behaviour
Calling(src) ==
    /\ \/ workload = src
       \/ workload = "SAMPLE" /\ src \in {"STORE", "ADPCM"}
    /\ call.n < call.max
    /\ fault = "none"

\* the second controller of a replay: constructed with the same instrument,
\* it gets the calls made on the first one after its reset()
Shadow ==
    [fm |-> replay.fm, ssg |-> replay.ssg, adpcm |-> replay.adpcm,
     drum |-> drum, regs |-> replay.regs, registerSetBuf |-> registerSetBuf,
     writes |-> <<>>]

Replayed(R) ==
    replay' = IF replay.on
              THEN [replay EXCEPT !.fm = R.fm, !.ssg = R.ssg, !.adpcm = R.adpcm,
                                  !.regs = R.regs, !.writes = R.writes]
              ELSE replay

\* the calls of a replay are keyOn, keyOff and tickEvent
NotReplaying == ~replay.on /\ UNCHANGED replay

KeyOnFM ==
    \E note \in Notes, octave \in Octaves, isJam \in BOOLEAN :
        /\ Calling("FM")
        /\ CalledKeyOn(keyOnFM(Ctl, note, octave, 0, isJam), "FM", isJam,
                       ~fm.isMute, Tone(octave, note, 0))
        /\ Replayed(keyOnFM(Shadow, note, octave, 0, isJam))

KeyOffFM ==
    \E isJam \in BOOLEAN :
        /\ Calling("FM")
        /\ Called(keyOffFM(Ctl, isJam), "keyOff", "FM", isJam, fm.isKeyOn)
        /\ Replayed(keyOffFM(Shadow, isJam))

SetMuteFMState ==
    \E isMute \in BOOLEAN :
        /\ Calling("FM")
        /\ NotReplaying
        /\ Called(setMuteFMState(Ctl, isMute), "setMuteState", "FM", FALSE, TRUE)

SetPortamentoEffectFM ==
    \E depth \in Depths, isTonePortamento \in BOOLEAN :
        /\ Calling("FM")
        /\ NotReplaying
        /\ Called(setPortamentoEffectFM(Ctl, depth, isTonePortamento),
                  "setPortamentoEffect", "FM", FALSE, TRUE)

SetVibratoEffectFM ==
    \E period \in Periods, depth \in Depths :
        /\ Calling("FM")
        /\ NotReplaying
        /\ Called(setVibratoEffectFM(Ctl, period, depth),
                  "setVibratoEffect", "FM", FALSE, TRUE)

SetTremoloEffectFM ==
    \E period \in Periods, depth \in Depths :
        /\ Calling("FM")
        /\ NotReplaying
        /\ Called(setTremoloEffectFM(Ctl, period, depth),
                  "setTremoloEffect", "FM", FALSE, TRUE)

SetVolumeSlideFM ==
    \E depth \in Depths, isUp \in BOOLEAN :
        /\ Calling("FM")
        /\ NotReplaying
        /\ Called(setVolumeSlideFM(Ctl, depth, isUp), "setVolumeSlide", "FM", FALSE, TRUE)

\* the operators and decay rates of the setDRControlFM calls
OpsDR == {0}
ValuesDR == {5}

SetDRControlFM ==
    \E op \in OpsDR, value \in ValuesDR, ub \in OutcomesOfAbsent :
        /\ Calling("FM")
        /\ NotReplaying
        /\ Stored(setDRControlFM(Ctl, op, value, ub), "setDRControl", "FM", FALSE,
                  faultOfAbsent(Ctl, ub) # "crash", call.keyed)
        /\ fault' = faultOfAbsent(Ctl, ub)
        /\ UNCHANGED <<insts, pools, regardingUnedited, last, used, workload>>

KeyOnSSG ==
    \E note \in Notes, octave \in Octaves, isJam \in BOOLEAN :
        /\ Calling("SSG")
        /\ CalledKeyOn(keyOnSSG(Ctl, note, octave, 0, isJam), "SSG", isJam,
                       ~ssg.isMute, Tone(octave, note, 0))
        /\ Replayed(keyOnSSG(Shadow, note, octave, 0, isJam))

KeyOffSSG ==
    \E isJam \in BOOLEAN :
        /\ Calling("SSG")
        /\ Called(keyOffSSG(Ctl, isJam), "keyOff", "SSG", isJam, ssg.isKeyOn)
        /\ Replayed(keyOffSSG(Shadow, isJam))

SetMuteSSGState ==
    \E isMute \in BOOLEAN :
        /\ Calling("SSG")
        /\ NotReplaying
        /\ Called(setMuteSSGState(Ctl, isMute), "setMuteState", "SSG", FALSE, TRUE)

SetPortamentoEffectSSG ==
    \E depth \in Depths, isTonePortamento \in BOOLEAN :
        /\ Calling("SSG")
        /\ NotReplaying
        /\ Called(setPortamentoEffectSSG(Ctl, depth, isTonePortamento),
                  "setPortamentoEffect", "SSG", FALSE, TRUE)

SetVibratoEffectSSG ==
    \E period \in Periods, depth \in Depths :
        /\ Calling("SSG")
        /\ NotReplaying
        /\ Called(setVibratoEffectSSG(Ctl, period, depth),
                  "setVibratoEffect", "SSG", FALSE, TRUE)

SetTremoloEffectSSG ==
    \E period \in Periods, depth \in Depths :
        /\ Calling("SSG")
        /\ NotReplaying
        /\ Called(setTremoloEffectSSG(Ctl, period, depth),
                  "setTremoloEffect", "SSG", FALSE, TRUE)

SetVolumeSlideSSG ==
    \E depth \in Depths, isUp \in BOOLEAN :
        /\ Calling("SSG")
        /\ NotReplaying
        /\ Called(setVolumeSlideSSG(Ctl, depth, isUp), "setVolumeSlide", "SSG",
                  FALSE, TRUE)

\* OPNAController::tickEvent(src, ch)
tickEvent(C, src) ==
    IF src = "FM" THEN tickEventFM(C)
    ELSE IF src = "SSG" THEN tickEventSSG(C)
    ELSE tickEventADPCM(C)

Chan(src) ==
    IF src = "FM" THEN fm
    ELSE IF src = "SSG" THEN ssg
    ELSE IF src = "ADPCM" THEN adpcm
    ELSE drum

\* the entries of an echo buffer
EchoBufs == 0..3

KeyOnFMEcho ==
    \E echoBuf \in EchoBufs :
        /\ Calling("FM")
        /\ CalledKeyOn(keyOnFMEcho(Ctl, echoBuf), "FM", FALSE,
                  ~fm.isMute /\ fm.baseTone[echoBuf + 1].octave # -1,
                  fm.baseTone[echoBuf + 1])
        /\ Replayed(keyOnFMEcho(Shadow, echoBuf))

KeyOnSSGEcho ==
    \E echoBuf \in EchoBufs :
        /\ Calling("SSG")
        /\ CalledKeyOn(keyOnSSGEcho(Ctl, echoBuf), "SSG", FALSE,
                  ~ssg.isMute /\ ssg.baseTone[echoBuf + 1].octave # -1,
                  ssg.baseTone[echoBuf + 1])
        /\ Replayed(keyOnSSGEcho(Shadow, echoBuf))

SetInstrumentADPCM ==
    /\ Calling("ADPCM")
    /\ ~adpcm.hasInst
    /\ Called(setInstrumentADPCM(Ctl), "setInstrument", "ADPCM", FALSE, TRUE)
    /\ Replayed(setInstrumentADPCM(Shadow))

KeyOnADPCM ==
    \E note \in Notes, octave \in Octaves, isJam \in BOOLEAN :
        /\ Calling("ADPCM")
        /\ CalledKeyOn(keyOnADPCM(Ctl, note, octave, 0, isJam), "ADPCM", isJam,
                       ~adpcm.isMute /\ adpcm.hasInst, Tone(octave, note, 0))
        /\ Replayed(keyOnADPCM(Shadow, note, octave, 0, isJam))

KeyOnADPCMEcho ==
    \E echoBuf \in EchoBufs :
        /\ Calling("ADPCM")
        /\ CalledKeyOn(keyOnADPCMEcho(Ctl, echoBuf), "ADPCM", FALSE,
                  /\ ~adpcm.isMute /\ adpcm.hasInst
                  /\ adpcm.baseTone[echoBuf + 1].octave # -1,
                  adpcm.baseTone[echoBuf + 1])
        /\ Replayed(keyOnADPCMEcho(Shadow, echoBuf))

KeyOffADPCM ==
    \E isJam \in BOOLEAN :
        /\ Calling("ADPCM")
        /\ Called(keyOffADPCM(Ctl, isJam), "keyOff", "ADPCM", isJam, adpcm.isKeyOn)
        /\ Replayed(keyOffADPCM(Shadow, isJam))

\* the volumes of a drum
VolumesDrum == {0, 31}

SetKeyOnFlagDrum ==
    /\ Calling("DRUM")
    /\ NotReplaying
    /\ Called(setKeyOnFlagDrum(Ctl), "setKeyOnFlag", "DRUM", FALSE, ~drum.isMute)

SetKeyOffFlagDrum ==
    /\ Calling("DRUM")
    /\ NotReplaying
    /\ Called(setKeyOffFlagDrum(Ctl), "setKeyOffFlag", "DRUM", FALSE, TRUE)

SetTemporaryVolumeDrum ==
    \E volume \in VolumesDrum :
        /\ Calling("DRUM")
        /\ NotReplaying
        /\ Called(setTemporaryVolumeDrum(Ctl, volume), "setTemporaryVolume", "DRUM",
                  FALSE, TRUE)

UpdateKeyOnOffStatusDrum ==
    /\ Calling("DRUM")
    /\ NotReplaying
    /\ Called(updateKeyOnOffStatusDrum(Ctl), "updateKeyOnOffStatus", "DRUM", FALSE, TRUE)

SetMuteDrumState ==
    \E isMute \in BOOLEAN :
        /\ Calling("DRUM")
        /\ NotReplaying
        /\ Called(setMuteDrumState(Ctl, isMute), "setMuteState", "DRUM", FALSE, TRUE)

SetVibratoEffectADPCM ==
    \E period \in Periods, depth \in Depths :
        /\ Calling("ADPCM")
        /\ NotReplaying
        /\ Called(setVibratoEffectADPCM(Ctl, period, depth),
                  "setVibratoEffect", "ADPCM", FALSE, TRUE)

SetTremoloEffectADPCM ==
    \E period \in Periods, depth \in Depths :
        /\ Calling("ADPCM")
        /\ NotReplaying
        /\ Called(setTremoloEffectADPCM(Ctl, period, depth),
                  "setTremoloEffect", "ADPCM", FALSE, TRUE)

SetMuteADPCMState ==
    \E isMute \in BOOLEAN :
        /\ Calling("ADPCM")
        /\ NotReplaying
        /\ Called(setMuteADPCMState(Ctl, isMute), "setMuteState", "ADPCM", FALSE, TRUE)

TickEvent ==
    \E src \in {"FM", "SSG", "ADPCM"} :
        /\ Calling(src)
        /\ Called(tickEvent(Ctl, src), "tickEvent", src, FALSE,
                  /\ ~Chan(src).hasPreSetTickEvent /\ ~Chan(src).isMute
                  /\ src = "ADPCM" => adpcm.hasInst)
        /\ Replayed(tickEvent(Shadow, src))

\* a session on the channel of one sound source of a constructed controller
InitCtl ==
    \E src \in {"FM", "SSG", "ADPCM", "DRUM"}, env \in EnvsFM, type \in SongTypes :
        /\ StartsAs(Constructed(FALSE), src,
                    OPNAController(env, type, IF type = "Standard" THEN 0 ELSE 6))
        /\ src # "FM" => env = DEF_ENV_CTL /\ type = "Standard"

\* OPNAController::reset(), once in a session; the calls after it are replayed
\* on the second controller
Reset ==
    /\ workload \in {"FM", "SSG", "ADPCM", "DRUM"}
    /\ call.n < call.max
    /\ fault = "none"
    /\ ~replay.on
    /\ Called(reset(Ctl), "reset", workload, FALSE, TRUE)
    /\ replay' = [replay EXCEPT !.on = TRUE,
                                !.dirty = <<fm, ssg, adpcm>>
                                             # <<replay.fm, replay.ssg, replay.adpcm>>]

NextCtl ==
    \/ KeyOnFM
    \/ KeyOffFM
    \/ SetMuteFMState
    \/ SetPortamentoEffectFM
    \/ SetVibratoEffectFM
    \/ SetTremoloEffectFM
    \/ SetVolumeSlideFM
    \/ SetDRControlFM
    \/ KeyOnSSG
    \/ KeyOffSSG
    \/ SetMuteSSGState
    \/ SetPortamentoEffectSSG
    \/ SetVibratoEffectSSG
    \/ SetTremoloEffectSSG
    \/ SetVolumeSlideSSG
    \/ KeyOnFMEcho
    \/ KeyOnSSGEcho
    \/ SetInstrumentADPCM
    \/ KeyOnADPCM
    \/ KeyOnADPCMEcho
    \/ KeyOffADPCM
    \/ SetMuteADPCMState
    \/ SetVibratoEffectADPCM
    \/ SetTremoloEffectADPCM
    \/ SetKeyOnFlagDrum
    \/ SetKeyOffFlagDrum
    \/ SetTemporaryVolumeDrum
    \/ UpdateKeyOnOffStatusDrum
    \/ SetMuteDrumState
    \/ TickEvent

SpecCtl == InitCtl /\ [][NextCtl]_vars

NextReplay == NextCtl \/ Reset

\* sessions of key-ons long enough to fill an echo buffer and push tones out
InitEcho ==
    \E src \in {"FM", "SSG", "ADPCM"} :
        StartsWith(Constructed(FALSE), src, OPNAController(DEF_ENV_CTL, "Standard", 0),
                   [NoCall EXCEPT !.max = MaxKeyOns])

NextEcho ==
    \/ KeyOnFM
    \/ KeyOnFMEcho
    \/ SetMuteFMState
    \/ KeyOnSSG
    \/ KeyOnSSGEcho
    \/ SetMuteSSGState
    \/ SetInstrumentADPCM
    \/ KeyOnADPCM
    \/ KeyOnADPCMEcho
    \/ SetMuteADPCMState
    \/ Reset

SpecEcho == InitEcho /\ [][NextEcho]_vars

\* the banks, addresses and values of the direct register sets
Banks == {0, 1}
DirectAddresses == {0, 1}
DirectValues == {1, 2}

SendRegisterAddress ==
    \E bank \in Banks, address \in DirectAddresses :
        /\ Calling("DIRECT")
        /\ NotReplaying
        /\ Called(sendRegisterAddress(Ctl, bank, address), "sendRegisterAddress",
                  "DIRECT", FALSE, TRUE)

SendRegisterValue ==
    \E value \in DirectValues :
        /\ Calling("DIRECT")
        /\ NotReplaying
        /\ Called(sendRegisterValue(Ctl, value), "sendRegisterValue", "DIRECT", FALSE,
                  registerSetBuf # <<>>)

UpdateRegisterStates ==
    /\ Calling("DIRECT")
    /\ NotReplaying
    /\ Called(updateRegisterStates(Ctl), "updateRegisterStates", "DIRECT", FALSE, TRUE)

\* sessions of direct register sets and the flush at the end of a tick
InitDirect ==
    StartsWith(Constructed(FALSE), "DIRECT", OPNAController(DEF_ENV_CTL, "Standard", 0),
               [NoCall EXCEPT !.max = MaxSends])

NextDirect ==
    \/ SendRegisterAddress
    \/ SendRegisterValue
    \/ UpdateRegisterStates

SpecDirect == InitDirect /\ [][NextDirect]_vars

\* the thread that renders: opna_->mix fills the container, the history takes
\* its last frames
GetStreamSamples ==
    \E nSamples \in 1..MaxSamples :
        \E container \in [1..nSamples -> Frames] :
            /\ workload = "STREAM"
            /\ stream.renderPc = "idle"
            /\ stream' = [getStreamSamples(stream, container) EXCEPT !.renderPc = "try"]
            /\ UNCHANGED <<imVars, fm, ssg, adpcm, drum, regs, registerSetBuf, macro, ssgs, vgm,
                       timer, call,
                       replay>>

\* fillOutputHistory: if no one holds the ready buffer, update the contents
TryLockHistory ==
    \E owns \in try_to_lock(stream.mutex) :
        /\ workload = "STREAM"
        /\ stream.renderPc = "try"
        /\ stream' = IF owns
                     THEN [stream EXCEPT !.mutex = "render", !.renderPc = "transfer",
                                         !.skipped = FALSE]
                     ELSE [stream EXCEPT !.renderPc = "idle", !.skipped = TRUE]
        /\ UNCHANGED <<imVars, fm, ssg, adpcm, drum, regs, registerSetBuf, macro, ssgs, vgm,
                       timer, call,
                       replay>>

\* transferReadyHistory() and the end of fillOutputHistory, which unlocks
TransferReadyHistory ==
    /\ workload = "STREAM"
    /\ stream.renderPc = "transfer"
    /\ stream' = [transferReadyHistory(stream) EXCEPT !.mutex = "free",
                                                      !.renderPc = "idle"]
    /\ UNCHANGED <<imVars, fm, ssg, adpcm, drum, regs, registerSetBuf, macro, ssgs, vgm,
                       timer, call,
                       replay>>

\* the other thread: getOutputHistory takes the mutex with std::lock_guard
GetOutputHistory ==
    \E owns \in lock(stream.mutex) :
        /\ workload = "STREAM"
        /\ stream.consumerPc = "idle"
        /\ stream' = [stream EXCEPT !.mutex = "consumer", !.consumerPc = "copy"]
        /\ UNCHANGED <<imVars, fm, ssg, adpcm, drum, regs, registerSetBuf, macro, ssgs, vgm,
                       timer, call,
                       replay>>

\* std::copy of the ready buffer and the end of getOutputHistory, which unlocks
CopyOutputHistory ==
    /\ workload = "STREAM"
    /\ stream.consumerPc = "copy"
    /\ stream' = [stream EXCEPT !.container = stream.outputHistoryReady,
                                !.mutex = "free", !.consumerPc = "idle"]
    /\ UNCHANGED <<imVars, fm, ssg, adpcm, drum, regs, registerSetBuf, macro, ssgs, vgm,
                       timer, call,
                       replay>>

InitStream ==
    StartsAs(Constructed(FALSE), "STREAM", OPNAController(DEF_ENV_CTL, "Standard", 0))

Render == GetStreamSamples \/ TryLockHistory \/ TransferReadyHistory

NextStream ==
    \/ GetStreamSamples
    \/ TryLockHistory
    \/ TransferReadyHistory
    \/ GetOutputHistory
    \/ CopyOutputHistory

SpecStream == InitStream /\ [][NextStream]_vars

\* the samples stored: Len(sample) bytes, the bytes do not matter
SampleSizes == {0, 1, 33, 64, 128}

StoreSampleADPCM ==
    \E size \in SampleSizes :
        LET sample == [i \in 1..size |-> 0]
            C == storeSampleADPCM(Ctl, sample)
        IN /\ Calling("STORE")
           /\ NotReplaying
           /\ Wrote(C)
           /\ call' = [op |-> "storeSample", src |-> "STORE", isJam |-> FALSE,
                       processed |-> adpcm.storePoint < dramLim,
                       writes |-> C.writes, n |-> call.n + 1, keyed |-> call.keyed,
                       returned |-> Append(call.returned,
                                           storeSampleADPCMAddrs(Ctl, sample)),
                       max |-> call.max, size |-> size]
           /\ UNCHANGED imVars

ClearSamplesADPCM ==
    LET C == clearSamplesADPCM(Ctl)
    IN /\ Calling("STORE")
       /\ NotReplaying
       /\ Wrote(C)
       /\ call' = [op |-> "clearSamples", src |-> "STORE", isJam |-> FALSE,
                   processed |-> TRUE, writes |-> C.writes, n |-> call.n + 1,
                   keyed |-> call.keyed, returned |-> <<>>, max |-> call.max]
       /\ UNCHANGED imVars

\* sessions of storing samples in the DRAM
InitStore ==
    StartsWith(Constructed(FALSE), "STORE", OPNAController(DEF_ENV_CTL, "Standard", 0),
               [NoCall EXCEPT !.max = MaxStores])

NextStore == StoreSampleADPCM \/ ClearSamplesADPCM

SpecStore == InitStore /\ [][NextStore]_vars

\* sequences of ten steps: one with the loop {3, 7, 2}, one with the release
\* marker at 5, one with both a loop and a release marker, one with the marker
\* at the start; and a sequence of three steps that loops for ever
TenSteps == [i \in 1..10 |-> 10 + i]

Sequences ==
    {[types |-> TenSteps, loops |-> {[begin |-> 3, end |-> 7, times |-> 2]},
      release |-> NoRelease, type |-> "ABSOLUTE_SEQUENCE"],
     [types |-> TenSteps, loops |-> {}, release |-> 5, type |-> "ABSOLUTE_SEQUENCE"],
     [types |-> TenSteps, loops |-> {[begin |-> 1, end |-> 3, times |-> 1]},
      release |-> 5, type |-> "ABSOLUTE_SEQUENCE"],
     [types |-> TenSteps, loops |-> {}, release |-> 0, type |-> "ABSOLUTE_SEQUENCE"],
     [types |-> <<48, 52, 55>>, loops |-> {[begin |-> 0, end |-> 3, times |-> Infinite]},
      release |-> NoRelease, type |-> "ABSOLUTE_SEQUENCE"]}

\* what the iterator reported is kept up to MaxVisits positions
Reported(visited, it) ==
    IF Len(visited) < MaxVisits THEN Append(visited, it.pos) ELSE visited

\* it->front(), as in checkOperatorSequenceFM with type 1
ActivateFront ==
    /\ workload = "SEQUENCE"
    /\ macro' = [it |-> activateFront(macro.it),
                 visited |-> <<activateFront(macro.it).pos>>,
                 plain |-> TRUE, released |-> FALSE]
    /\ UNCHANGED <<imVars, fm, ssg, adpcm, drum, regs, registerSetBuf, stream, ssgs, vgm,
                   timer, call,
                   replay>>

\* it->next(), type 0, and it->next(true), type 2
Advance ==
    \E inRelease \in BOOLEAN :
        /\ workload = "SEQUENCE"
        /\ macro' = [it |-> advance(macro.it, inRelease),
                     visited |-> IF macro.plain /\ ~inRelease
                                 THEN Reported(macro.visited, advance(macro.it, inRelease))
                                 ELSE <<>>,
                     plain |-> macro.plain /\ ~inRelease,
                     released |-> macro.released \/ inRelease]
        /\ UNCHANGED <<imVars, fm, ssg, adpcm, drum, regs, registerSetBuf, stream, ssgs, vgm, timer,
                       call, replay>>

\* sessions on a fresh iterator of a sequence
InitSequence ==
    \E seq \in Sequences :
        StartsFrom(Constructed(FALSE), "SEQUENCE",
                   OPNAController(DEF_ENV_CTL, "Standard", 0), NoCall,
                   [NoMacro EXCEPT !.it = SequenceIterator(seq)])

NextSequence == ActivateFront \/ Advance

SpecSequence == InitSequence /\ [][NextSequence]_vars

\* the arpeggios of the instrument: the steps 0, 4, 7 and the steps 48, 52, 55,
\* both absolute and looping over the whole sequence for ever
Arpeggios ==
    {[types |-> types, loops |-> {[begin |-> 0, end |-> 3, times |-> Infinite]},
      release |-> NoRelease, type |-> "ABSOLUTE_SEQUENCE"] :
        types \in {<<0, 4, 7>>, <<48, 52, 55>>}}

\* the controller after setInstrumentFM with an instrument whose arpeggio is
\* enabled: arpItFM_[ch] = refInstFM_[inch]->getArpeggioSequenceIterator(opType)
setArpeggioFM(C, seq) == [C EXCEPT !.fm.arpIt = SequenceIterator(seq)]

\* sessions of keyOn, keyOff and tickEvent on an FM channel with an arpeggio
InitArpeggio ==
    \E seq \in Arpeggios, env \in EnvsFM \ {DEF_ENV_CTL} :
        StartsWith(Constructed(FALSE), "FM",
                   setArpeggioFM(OPNAController(env, "Standard", 0), seq),
                   [NoCall EXCEPT !.max = MaxTicks])

NextArpeggio == KeyOnFM \/ KeyOffFM \/ TickEvent

SpecArpeggio == InitArpeggio /\ [][NextArpeggio]_vars

\* the key tone is the tone of the newest accepted key-on moved by the offset
\* that stands at the position the arpeggio iterator reports
ArpeggioResolves(types, offsets) ==
    (/\ workload = "FM" /\ fm.arpIt # NoIt /\ call.keyed # <<>>) =>
        ((/\ fm.arpIt.seq.types = types
          /\ fm.arpIt.pos # NoOutput
          /\ call.keyed[1] = Tone(4, 0, 0))
         => fm.keyTone = Tone(4, offsets[fm.arpIt.pos + 1], 0))

ArpeggioCycles ==
    (/\ workload = "FM" /\ fm.arpIt # NoIt /\ call'.n = call.n + 1) =>
        /\ (call'.op = "tickEvent" /\ call'.processed /\ fm.arpIt.pos # NoOutput)
            => fm'.arpIt.pos = (fm.arpIt.pos + 1) % 3
        /\ (call'.op = "tickEvent" /\ ~call'.processed)
            => (fm'.arpIt = fm.arpIt /\ fm'.keyTone = fm.keyTone)
        /\ (call'.op = "keyOn" /\ call'.processed) => fm'.arpIt.pos = 0

InitSample ==
    StartsWith(Constructed(FALSE), "SAMPLE",
               setInstrumentADPCM(OPNAController(DEF_ENV_CTL, "Standard", 0)),
               [NoCall EXCEPT !.max = MaxStores])

NextSample == StoreSampleADPCM \/ ClearSamplesADPCM \/ KeyOnADPCM

SpecSample == InitSample /\ [][NextSample]_vars

\* what the waveform and the tone/noise iterator of a channel report on a
\* step: the sentinel, or a position and the command type there
NoStep == [pos |-> -1, type |-> -1]
WaveformSteps == {NoStep} \cup {[pos |-> 0, type |-> t] : t \in SSGWaveformTypes}
ToneNoiseSteps ==
    {NoStep} \cup {[pos |-> 0, type |-> t] :
                      t \in {0} \cup {1 + p : p \in NoisePeriods}
                               \cup {33 + p : p \in NoisePeriods}}
StepsOf(has, steps) == IF has THEN steps ELSE {NoStep}

CallingSSGs ==
    /\ workload \in {"NOISE", "MIXER", "SLIDE"}
    /\ call.n < call.max
    /\ fault = "none"

\* the SSG channels after a call; the other members of the controller and the
\* manager are left alone
BecomesSSGs(M, op, ch, tn, slid) ==
    /\ ssgs' = [M EXCEPT !.slid = slid,
                         !.last = [op |-> op, ch |-> ch, tn |-> tn]]
    /\ call' = [call EXCEPT !.op = op, !.n = @ + 1]
    /\ UNCHANGED <<imVars, fm, ssg, adpcm, drum, regs, registerSetBuf, stream, macro,
                   vgm, timer, replay>>

KeyOnSSGs ==
    \E ch \in SSGChannels :
        \E wf \in StepsOf(ssgs.wfIt[ch], WaveformSteps),
           tn \in StepsOf(ssgs.tnIt[ch], ToneNoiseSteps) :
            /\ CallingSSGs
            /\ BecomesSSGs(keyOnSSGs(ssgs, ch, wf, tn), "keyOn", ch, tn,
                           [ssgs.slid EXCEPT ![ch] = FALSE])

TickEventSSGs ==
    \E ch \in SSGChannels :
        \E wf \in StepsOf(ssgs.wfIt[ch], WaveformSteps),
           tn \in StepsOf(ssgs.tnIt[ch], ToneNoiseSteps) :
            /\ CallingSSGs
            /\ BecomesSSGs(tickEventSSGs(ssgs, ch, wf, tn), "tickEvent", ch, tn,
                           ssgs.slid)

SetNoteSlideSSG ==
    \E ch \in SSGChannels, seminote \in {0, 1} :
        /\ CallingSSGs
        /\ BecomesSSGs(setNoteSlideSSG(ssgs, ch, seminote), "setNoteSlide", ch, NoStep,
                       [ssgs.slid EXCEPT ![ch] = @ \/ seminote # 0])

SetToneNoiseMixSSG ==
    \E ch \in SSGChannels, value \in 0..3 :
        /\ CallingSSGs
        /\ BecomesSSGs(setToneNoiseMixSSG(ssgs, ch, value), "setToneNoiseMix", ch,
                       NoStep, ssgs.slid)

SetNoisePitchSSG ==
    \E ch \in SSGChannels, pitch \in NoisePeriods :
        /\ CallingSSGs
        /\ BecomesSSGs(setNoisePitchSSG(ssgs, ch, pitch), "setNoisePitch", ch, NoStep,
                       ssgs.slid)

InitSSGs(w) ==
    StartsWith(Constructed(FALSE), w, OPNAController(DEF_ENV_CTL, "Standard", 0),
               [NoCall EXCEPT !.max = MaxMixes])

\* sessions of ticks and setNoisePitchSSG on channels with a tone/noise macro
InitNoise == InitSSGs("NOISE")
NextNoise == TickEventSSGs \/ SetNoisePitchSSG
SpecNoise == InitNoise /\ [][NextNoise]_vars

\* sessions of key-ons and setNoteSlideSSG
InitSlide == InitSSGs("SLIDE")
NextSlide == KeyOnSSGs \/ SetNoteSlideSSG
SpecSlide == InitSlide /\ [][NextSlide]_vars

\* sessions of key-ons, ticks and setToneNoiseMixSSG
InitMixer == InitSSGs("MIXER")
NextMixer == KeyOnSSGs \/ TickEventSSGs \/ SetToneNoiseMixSSG
SpecMixer == InitMixer /\ [][NextMixer]_vars

\* sessions of an export into a VGM container
MaxVgmCalls == 4
NSamples == {1, 17, 735, 882, 66000}
RegisterChanges == {[offset |-> 7, value |-> 97], [offset |-> 296, value |-> 99]}

CallingVgm ==
    /\ workload = "VGM"
    /\ call.n < call.max
    /\ fault = "none"

BecomesVgm(V, op) ==
    /\ vgm' = [V EXCEPT !.last = op]
    /\ call' = [call EXCEPT !.op = op, !.n = @ + 1]
    /\ UNCHANGED <<imVars, fm, ssg, adpcm, drum, regs, registerSetBuf, stream, macro,
                   ssgs, timer, replay>>

RecordStream ==
    \E nSamples \in NSamples :
        /\ CallingVgm
        /\ BecomesVgm(recordStream(vgm, nSamples), "recordStream")

RecordRegisterChange ==
    \E change \in RegisterChanges :
        /\ CallingVgm
        /\ BecomesVgm(recordRegisterChange(vgm, change.offset, change.value),
                      "recordRegisterChange")

SetLoopPoint == CallingVgm /\ BecomesVgm(setLoopPoint(vgm), "setLoopPoint")

GetData == CallingVgm /\ BecomesVgm(getData(vgm), "getData")

InitVgm ==
    StartsWith(Constructed(FALSE), "VGM", OPNAController(DEF_ENV_CTL, "Standard", 0),
               [NoCall EXCEPT !.max = MaxVgmCalls])

NextVgm == RecordStream \/ RecordRegisterChange \/ SetLoopPoint \/ GetData

SpecVgm == InitVgm /\ [][NextVgm]_vars

\* sessions of the owner of a timer and of the thread of the timer
MaxTimerCalls == 5
MaxInvocations == 3

BecomesTimer(T) ==
    /\ timer' = T
    /\ UNCHANGED <<imVars, fm, ssg, adpcm, drum, regs, registerSetBuf, stream, macro,
                   ssgs, vgm, replay>>

CallingTimer ==
    /\ workload = "TIMER"
    /\ call.n < call.max
    /\ timer.pc = "idle"
    /\ ~timer.terminated

CalledTimer(T, op) == BecomesTimer(T) /\ call' = [call EXCEPT !.op = op, !.n = @ + 1]

StartTimer == CallingTimer /\ CalledTimer(start(timer), "start")

StopTimer == CallingTimer /\ CalledTimer(stop(timer), "stop")

JoinTimer ==
    /\ workload = "TIMER"
    /\ timer.pc = "join"
    /\ timer.thread = "done"
    /\ BecomesTimer(join(timer))
    /\ UNCHANGED call

RunsTimer(at) == workload = "TIMER" /\ timer.thread = at /\ ~timer.terminated

TestContinue == RunsTimer("test") /\ BecomesTimer(testContinue(timer)) /\ UNCHANGED call

InvokeFunction ==
    /\ RunsTimer("sleep")
    /\ timer.invoked < MaxInvocations
    /\ BecomesTimer(invokeFunction(timer))
    /\ UNCHANGED call

ReturnFunction == RunsTimer("func") /\ BecomesTimer(returnFunction(timer)) /\ UNCHANGED call

InitTimer ==
    StartsWith(Constructed(FALSE), "TIMER", OPNAController(DEF_ENV_CTL, "Standard", 0),
               [NoCall EXCEPT !.max = MaxTimerCalls])

NextTimer ==
    \/ StartTimer
    \/ StopTimer
    \/ JoinTimer
    \/ TestContinue
    \/ InvokeFunction
    \/ ReturnFunction

SpecTimer == InitTimer /\ [][NextTimer]_vars

\* sessions of key-ons, tone portamento settings and mute changes on an FM
\* channel without an arpeggio, with the ticks of the tick driver in
\* between; the ticks are not counted, they go on for ever
MaxPrtmCalls == 4
DepthsPrtm == {0, 5, 16}
NotesPrtm == {0, 1}

CallingPortamento ==
    /\ workload = "PORTAMENTO"
    /\ call.n < call.max
    /\ fault = "none"

KeyOnPortamento ==
    \E note \in NotesPrtm, octave \in Octaves, isJam \in BOOLEAN :
        /\ CallingPortamento
        /\ NotReplaying
        /\ CalledKeyOn(keyOnFM(Ctl, note, octave, 0, isJam), "FM", isJam,
                       ~fm.isMute, Tone(octave, note, 0))

SetTonePortamentoFM ==
    \E depth \in DepthsPrtm :
        /\ CallingPortamento
        /\ NotReplaying
        /\ Called(setPortamentoEffectFM(Ctl, depth, TRUE), "setPortamentoEffect", "FM",
                  FALSE, TRUE)

SetMutePortamento ==
    \E isMute \in BOOLEAN :
        /\ CallingPortamento
        /\ NotReplaying
        /\ Called(setMuteFMState(Ctl, isMute), "setMuteState", "FM", FALSE, TRUE)

TickEventPortamento ==
    /\ workload = "PORTAMENTO"
    /\ fault = "none"
    /\ NotReplaying
    /\ Wrote(tickEventFM(Ctl))
    /\ call' = [call EXCEPT !.op = "tickEvent", !.src = "FM", !.isJam = FALSE,
                            !.processed = ~fm.hasPreSetTickEvent /\ ~fm.isMute,
                            !.writes = tickEventFM(Ctl).writes]
    /\ UNCHANGED imVars

InitPortamento ==
    StartsWith(Constructed(FALSE), "PORTAMENTO",
               OPNAController(DEF_ENV_CTL, "Standard", 0),
               [NoCall EXCEPT !.max = MaxPrtmCalls])

NextPortamento ==
    \/ KeyOnPortamento
    \/ SetTonePortamentoFM
    \/ SetMutePortamento
    \/ TickEventPortamento

\* the tick driver calls tickEvent again and again
SpecPortamento ==
    InitPortamento /\ [][NextPortamento]_vars /\ WF_vars(TickEventPortamento)

SpecReplay == InitCtl /\ [][NextReplay]_vars


(***************************************************************************)
(* Properties of the manager.                                              *)
(***************************************************************************)
\* the instruments that have a reference of the pool enabled and pointing at
\* the slot
Pointing(pool, slot) ==
    {n \in InstNums :
        /\ insts[n] # NoInst
        /\ \E f \in Fields(insts[n].src) :
              /\ f.pool = pool
              /\ AlwaysEnabled(pool) \/ insts[n].en[f]
              /\ insts[n].num[f] = slot}

\* C1: after any sequence of manager operations, the reference set of every
\* slot of every pool is the set of existing instruments that have the
\* property enabled and pointing at the slot
C1_ReferenceSetsMatch ==
    fault = "none" =>
        \A pool \in Pools, slot \in Slots : pools[pool][slot].users = Pointing(pool, slot)

\* the instruments of the clone operation performed last
AfterClone(op) == fault = "none" /\ last.op = op
CloneB == insts[last.inst]
CloneA == insts[last.ref]
Enabled(inst, f) == AlwaysEnabled(f.pool) \/ inst.en[f]
PayloadOf(inst, f) == pools[f.pool][inst.num[f]].val

\* C3: after deepCloneInstrument(B, A) no property that both instruments
\* have enabled points at the same slot in A and in B, so that an edit of a
\* slot of one leaves the payloads of the other alone
C3_DeepCloneSharesNoSlot ==
    AfterClone("deepCloneInstrument") =>
        \A f \in Fields(CloneA.src) :
            Enabled(CloneA, f) /\ Enabled(CloneB, f) => CloneB.num[f] # CloneA.num[f]

\* C4: two instruments that checkDuplicateInstruments puts in one group have
\* the same sound source, and every payload both reference enabled is
\* value-equal, all four operators of an FM envelope included
C4_DuplicatesAreEqual ==
    last.op = "checkDuplicateInstruments" =>
        \A i \in DOMAIN last.ret : \A j, k \in DOMAIN last.ret[i] :
            LET a == insts[last.ret[i][j]]
                b == insts[last.ret[i][k]]
            IN /\ a.src = b.src
               /\ \A f \in Fields(a.src) :
                     Enabled(a, f) /\ Enabled(b, f) =>
                         ValueEq(f.pool, PayloadOf(a, f), PayloadOf(b, f))

\* C8: right after deepCloneInstrument(B, A) every property enabled on A, per
\* operator type where there are types, is enabled on B, and the payload B
\* points at is value-equal to the payload A points at
C8_DeepCloneCopiesPayloads ==
    AfterClone("deepCloneInstrument") =>
        \A f \in Fields(CloneA.src) :
            Enabled(CloneA, f) =>
                /\ Enabled(CloneB, f)
                /\ ValueEq(f.pool, PayloadOf(CloneB, f), PayloadOf(CloneA, f))

\* C9: after deepCloneInstrument(B, A) the slot that addInstrument registered
\* B to provisionally lists B only if it is the slot of the clone, and B is
\* listed by exactly the slots its enabled properties point at
C9_DeepCloneRegistersExactly ==
    AfterClone("deepCloneInstrument") =>
        /\ \A f \in Fields(CloneA.src) :
              AlwaysEnabled(f.pool) /\ last.inst \in pools[f.pool][last.prov[f.pool]].users
                  => last.prov[f.pool] = CloneB.num[f]
        /\ \A pool \in Pools, slot \in Slots :
              last.inst \in pools[pool][slot].users <=> last.inst \in Pointing(pool, slot)

\* C10: after cloneInstrument(B, A) B has the slot index and the enabled flag
\* of A for every property, every slot A has enabled lists A and B, and the
\* slot addInstrument registered B to provisionally lists B only if A uses it
C10_ShallowCloneShares ==
    AfterClone("cloneInstrument") =>
        /\ \A f \in Fields(CloneA.src) :
              /\ CloneB.num[f] = CloneA.num[f]
              /\ CloneB.en[f] = CloneA.en[f]
              /\ Enabled(CloneA, f) =>
                    {last.inst, last.ref} \subseteq pools[f.pool][CloneA.num[f]].users
        /\ \A f \in Fields(CloneA.src) :
              AlwaysEnabled(f.pool) /\ last.inst \in pools[f.pool][last.prov[f.pool]].users
                  => last.prov[f.pool] = CloneA.num[f]

\* C7: no operation of the manager other than an edit of a payload changes
\* the payload of a slot whose reference set is non-empty when the operation
\* starts
C7_UsedPayloadKept ==
    [][last'.op # "setParameter" =>
          \A pool \in Pools, slot \in Slots :
              pools[pool][slot].users # {} =>
                  pools'[pool][slot].val = pools[pool][slot].val]_vars

\* a clearing of the unused slots has run over a used slot with an edited
\* payload and over an unused slot it has reset
C7_Witness ==
    /\ last.op = "clearUnusedInstrumentProperties"
    /\ used["edit"] > 0
    /\ \E pool \in Pools, slot \in Slots :
          pools[pool][slot].users # {} /\ isEdited(pool, pools[pool][slot].val)

\* C11: after removeInstrument(n) on an existing instrument n, the entry n is
\* absent and no slot of any pool lists n in its reference set.
C11_RemovedIsNowhere ==
    last.op = "removeInstrument"
        => /\ insts[last.inst] = NoInst
           /\ \A pool \in Pools, slot \in Slots : last.inst \notin pools[pool][slot].users

\* two existing instruments of one sound source that enable the same
\* properties, with value-equal payloads in every enabled property
SameEnabledPayloads(m, n) ==
    /\ Exists(m) /\ Exists(n) /\ m # n
    /\ insts[m].src = insts[n].src
    /\ \A f \in Fields(insts[m].src) :
          /\ Enabled(insts[m], f) = Enabled(insts[n], f)
          /\ Enabled(insts[m], f) =>
                 ValueEq(f.pool, PayloadOf(insts[m], f), PayloadOf(insts[n], f))

SameEnvelopeReset(m, n) == insts[m].rst = insts[n].rst

InOneGroup(m, n) ==
    \E i \in DOMAIN last.ret : {m, n} \subseteq Range(last.ret[i])

GroupsOf(n) == {i \in DOMAIN last.ret : n \in Range(last.ret[i])}

\* C13 as stated: the groups checkDuplicateInstruments returns partition the
\* existing instrument numbers: every existing number is in exactly one group
C13_GroupsPartitionExisting ==
    last.op = "checkDuplicateInstruments" =>
        \A n \in InstNums : Exists(n) => Cardinality(GroupsOf(n)) = 1

\* C13 amended: the groups checkDuplicateInstruments returns are pairwise
\* disjoint lists, without repetition, of at least two existing instrument
\* numbers; an existing number is in a group exactly when another existing
\* instrument of its sound source compares equal to it, and in no group
\* otherwise
C13_GroupsAreDisjointDuplicates ==
    last.op = "checkDuplicateInstruments" =>
        /\ \A i \in DOMAIN last.ret :
              /\ Len(last.ret[i]) > 1
              /\ Cardinality(Range(last.ret[i])) = Len(last.ret[i])
              /\ \A n \in Range(last.ret[i]) : Exists(n)
        /\ \A n \in InstNums : Cardinality(GroupsOf(n)) <= 1
        /\ \A n \in InstNums :
              Exists(n) =>
                  (GroupsOf(n) # {}
                      <=> \E m \in InstNums \ {n} :
                              /\ Exists(m)
                              /\ insts[m].src = insts[n].src
                              /\ equalProperties(Mgr, insts[m], insts[n]))

\* two groups are returned, of instruments of different sound sources
C13_Witness ==
    /\ last.op = "checkDuplicateInstruments"
    /\ Len(last.ret) = 2
    /\ insts[last.ret[1][1]].src # insts[last.ret[2][1]].src

\* C14: addInstrument and deepCloneInstrument complete without an
\* out-of-range access, also when a pool has no free slot, and every slot
\* index an instrument stores is an index of its pool
C14_SlotsStayInRange ==
    /\ fault = "none"
    /\ \A n \in InstNums :
          Exists(n) => \A f \in Fields(insts[n].src) : insts[n].num[f] \in Slots

\* C15: the list of entried slot indices of a pool holds exactly the indices
\* of the slots that an instrument uses or whose payload is edited
C15_EntriedAreUsedOrEdited ==
    last.op = "getEntriedIndices" =>
        Range(last.ret) = {slot \in Slots :
                              \/ pools[last.pool][slot].users # {}
                              \/ pools[last.pool][slot].val # Default(last.pool)}

\* the pools a clear operation goes through
ClearedPools(op) ==
    IF op = "clearUnusedInstrumentProperties" THEN Pools
    ELSE IF op = "clearUnusedWaveformsADPCM" THEN {"wfADPCM"}
    ELSE {}

\* C16: clearUnusedInstrumentProperties and clearUnusedWaveformsADPCM reset
\* exactly the slots, of the pools they go through, that have an empty
\* reference set: such a slot has the default payload and no user afterwards,
\* every other slot keeps its payload and its reference set, and no
\* instrument changes
C16_ClearResetsExactlyUnused ==
    [][ClearedPools(last'.op) # {} =>
          /\ insts' = insts
          /\ \A pool \in Pools, slot \in Slots :
                IF pool \in ClearedPools(last'.op) /\ pools[pool][slot].users = {}
                THEN pools'[pool][slot] = [users |-> {}, val |-> Default(pool)]
                ELSE pools'[pool][slot] = pools[pool][slot]]_vars

\* a clear operation has reset an edited slot without users in a pool that
\* also has a slot in use
C16_Witness ==
    /\ ClearedPools(last.op) # {}
    /\ \E e \in last.edited :
          /\ pools[e[1]][e[2]] = [users |-> {}, val |-> Default(e[1])]
          /\ \E slot \in Slots : pools[e[1]][slot].users # {}

(***************************************************************************)
(* Properties of the controller.                                           *)
(***************************************************************************)
\* the values the effect iterators of a channel stand at
IteratorValues(c) ==
    <<IF c.treIt = NoIt THEN 0 ELSE getCommandType(c.treIt),
      IF c.vibIt = NoIt THEN 0 ELSE getCommandType(c.vibIt)>>

\* every register write of the call made now repeats the byte the register holds
RewritesHeldBytes ==
    \A i \in 1..Len(call'.writes) : regs[call'.writes[i][1]] = call'.writes[i][2]

\* C2: when tickEvent is called twice in a row on a channel and, between the
\* two calls, no iterator comes to a new value and no derived register byte
\* changes, the second tickEvent emits no register write.
C2_SecondTickWritesNothing ==
    [][(/\ call.op = "tickEvent"
        /\ call'.op = "tickEvent"
        /\ call'.src = call.src
        /\ IteratorValues(fm') = IteratorValues(fm)
        /\ IteratorValues(ssg') = IteratorValues(ssg)
        /\ RewritesHeldBytes)
       => call'.writes = <<>>]_vars

\* C5: the tickEvent that follows a processed keyOn or keyOff of its channel
\* is skipped, whatever isJam was: it advances no iterator and writes no
\* register; and a tickEvent leaves no skip pending.
C5_TickAfterKeyIsSkipped ==
    [][call'.op = "tickEvent" /\ call'.src = call.src
       => /\ (call.op \in {"keyOn", "keyOff"} /\ call.processed)
               => /\ call'.writes = <<>>
                  /\ fm'.treIt = fm.treIt /\ fm'.vibIt = fm.vibIt
                  /\ ssg'.treIt = ssg.treIt /\ ssg'.vibIt = ssg.vibIt
          /\ ~fm'.hasPreSetTickEvent
          /\ ~ssg'.hasPreSetTickEvent]_vars

\* C6: after keyOn on a channel that is not muted the key-on flag of the
\* channel is true, whatever state the channel was in.
C6_KeyOnSounds ==
    call.op = "keyOn" /\ call.processed => Chan(call.src).isKeyOn

\* C17: the calls keyOn, keyOff and tickEvent made on a channel after reset()
\* write what the same calls write on a controller constructed with the same
\* instrument: call by call the two lists of (address, value) writes are the
\* same.  The channel is clean when it is not muted: reset() keeps the mute
\* state
C17_ReplaysWriteTheSame ==
    replay.on /\ ~Chan(workload).isMute /\ call.op # "reset"
        => call.writes = replay.writes

\* a keyOn of a replay that writes registers, on a channel that was in use
\* before the reset
C17_Witness ==
    /\ replay.on /\ replay.dirty /\ ~Chan(workload).isMute
    /\ call.op = "keyOn" /\ call.processed
    /\ call.writes # <<>>
    /\ call.writes = replay.writes

\* C18: a muted channel (FM, SSG or ADPCM) is not sounding: its key-on flag
\* is false, whatever the calls to setMuteState, keyOn, keyOn from the echo
\* buffer, keyOff and tickEvent were
C18_MutedIsNotSounding ==
    /\ fm.isMute => ~fm.isKeyOn
    /\ ssg.isMute => ~ssg.isKeyOn
    /\ adpcm.isMute => ~adpcm.isKeyOn

\* a keyOn on a channel that sounded before it was muted
C18_Witness ==
    /\ workload \in {"FM", "SSG", "ADPCM"}
    /\ call.op = "keyOn"
    /\ Chan(workload).isMute
    /\ Chan(workload).hasKeyOnBefore
    /\ ~Chan(workload).isKeyOn

\* the operators of the FM channel of the session: the four of a channel,
\* the one of an operator channel of FM3 in the 3-operator-expanded mode
OperatorsOfChannel ==
    IF toChannelOperatorType(fm, fm.ch) = "All" THEN 0..3
    ELSE {OperatorOf[toChannelOperatorType(fm, fm.ch)]}

\* the register that holds the sustain level and the release rate of an
\* operator of the channel
ReleaseRateRegister(op) ==
    128 + getFMChannelOffset(fm, toInternalFMChannel(fm, fm.ch), FALSE) + OpOffset[op + 1]

\* C19: setMuteFMState leaves the envelope the controller caches as it is;
\* a mute writes the maximal release rate (15) to the release-rate register
\* of every operator of the channel, and an unmute writes each of these
\* registers from the cached sustain level and release rate, the ones the
\* channel had before the mute; in the Standard and in the
\* 3-operator-expanded mode
C19_MuteKeepsReleaseRates ==
    [][call'.op = "setMuteState" /\ call'.src = "FM" /\ call'.n = call.n + 1
        => /\ fm'.env = fm.env
           /\ \A op \in OperatorsOfChannel :
                 IF fm'.isMute
                 THEN regs'[ReleaseRateRegister(op)] % 16 = 15
                 ELSE regs'[ReleaseRateRegister(op)]
                          = uint8(BitOr(fm.env.sl[op + 1] * 16, fm.env.rr[op + 1]))]_vars

\* an unmute of an operator channel of FM3 that follows its mute: the
\* register of the operator has the release rate back
C19_Witness ==
    /\ workload = "FM" /\ fm.mode = "FM3chExpanded"
    /\ call.op = "setMuteState" /\ ~fm.isMute /\ fm.hasResetEnv
    /\ call.writes = <<<<ReleaseRateRegister(1),
                         uint8(BitOr(fm.env.sl[2] * 16, fm.env.rr[2]))>>>>
    /\ fm.env.rr[2] < 15

\* C20: keyOn and keyOn from the echo buffer on a muted FM, SSG or ADPCM
\* channel, and the key-on flag request of a muted drum, write no register
\* and leave every member of the channels as it is: echo buffer, key tone,
\* accumulators, iterators, key-on flag, pre-set tick flag
C20_KeyOnOfMutedIsNoOp ==
    [][(call'.n = call.n + 1 /\ call'.op \in {"keyOn", "setKeyOnFlag"}
            /\ Chan(call'.src).isMute)
        => (call'.writes = <<>> /\ UNCHANGED <<fm, ssg, adpcm, drum, regs>>)]_vars

\* a keyOn on a muted FM channel that had sounded and has a tone in its
\* echo buffer
C20_Witness ==
    /\ workload = "FM" /\ fm.isMute
    /\ call.op = "keyOn" /\ ~call.processed /\ call.writes = <<>>
    /\ fm.hasKeyOnBefore /\ fm.baseTone[1].octave # -1
\* C21: keyOff on a channel that is not sounding does what one tickEvent on
\* that channel does: the same members change and the same registers are
\* written; no key-off pattern goes to register 0x28 and the key-on flag
\* stays as it was
C21_KeyOffOfSilentIsTick ==
    [][(call'.n = call.n + 1 /\ call'.op = "keyOff" /\ ~Chan(call'.src).isKeyOn)
        => (/\ fm' = tickEvent(Ctl, call'.src).fm
            /\ ssg' = tickEvent(Ctl, call'.src).ssg
            /\ adpcm' = tickEvent(Ctl, call'.src).adpcm
            /\ regs' = tickEvent(Ctl, call'.src).regs
            /\ call'.writes = tickEvent(Ctl, call'.src).writes
            /\ \A i \in 1..Len(call'.writes) : call'.writes[i][1] # 40
            /\ ~fm'.isKeyOn /\ ~ssg'.isKeyOn /\ ~adpcm'.isKeyOn)]_vars

\* a keyOff on a channel that is not sounding and whose tick writes registers
C21_Witness ==
    /\ call.op = "keyOff" /\ ~call.processed
    /\ ~Chan(call.src).isKeyOn
    /\ call.writes # <<>>
\* the channel of a sound source after the step
ChanAfter(src) ==
    IF src = "FM" THEN fm' ELSE IF src = "SSG" THEN ssg' ELSE adpcm'

\* the iterators a channel holds went one step on, each once
IteratorsAdvancedOnce(src) ==
    /\ ChanAfter(src).vibIt = IF Chan(src).vibIt = NoIt THEN NoIt ELSE next(Chan(src).vibIt)
    /\ ChanAfter(src).treIt = IF Chan(src).treIt = NoIt THEN NoIt ELSE next(Chan(src).treIt)

\* the key bits of the channel were cleared in register 0x28 (FM)
KeyOnBitCleared(src) ==
    src = "FM" => \E i \in 1..Len(call'.writes) :
                     call'.writes[i][1] = 40 /\ call'.writes[i][2] \div 16 = 0

\* a keyOff on a sounding channel
KeyOffOfSounding ==
    call'.n = call.n + 1 /\ call'.op = "keyOff" /\ Chan(call'.src).isKeyOn

\* a mute of a sounding FM, SSG or ADPCM channel
MuteOfSounding ==
    /\ call'.n = call.n + 1 /\ call'.op = "setMuteState"
    /\ call'.src \in {"FM", "SSG", "ADPCM"}
    /\ Chan(call'.src).isKeyOn /\ ChanAfter(call'.src).isMute

\* C22 as stated: keyOff on a sounding channel, and the key-off done by a
\* mute, step every iterator of the channel once, clear the key-on bits (FM)
\* and leave the channel not sounding
C22_KeyOffAndMuteRelease ==
    [][(KeyOffOfSounding \/ MuteOfSounding)
        => (/\ IteratorsAdvancedOnce(call'.src)
            /\ KeyOnBitCleared(call'.src)
            /\ ~ChanAfter(call'.src).isKeyOn)]_vars

\* C22, amended: keyOff on a sounding channel steps every iterator of the
\* channel once, clears the key-on bits (FM) and leaves the channel not
\* sounding; a mute of a sounding channel clears the key-on bits (FM) and
\* leaves the channel not sounding, and the iterators stay where they are
C22_KeyOffReleases ==
    [][/\ KeyOffOfSounding
          => (/\ IteratorsAdvancedOnce(call'.src)
              /\ KeyOnBitCleared(call'.src)
              /\ ~ChanAfter(call'.src).isKeyOn)
       /\ MuteOfSounding
          => (/\ ChanAfter(call'.src).vibIt = Chan(call'.src).vibIt
              /\ ChanAfter(call'.src).treIt = Chan(call'.src).treIt
              /\ KeyOnBitCleared(call'.src)
              /\ ~ChanAfter(call'.src).isKeyOn)]_vars

\* a keyOff on a sounding FM channel with a vibrato: the iterator is one
\* step after the front
C22_Witness ==
    /\ workload = "FM"
    /\ call.op = "keyOff" /\ call.processed
    /\ fm.vibIt # NoIt /\ fm.vibIt.pos = 1
    /\ ~fm.isKeyOn /\ regs[40] \div 16 = 0
(***************************************************************************)
(* The echo buffers.                                                       *)
(***************************************************************************)
\* an entry of std::deque<ToneDetail>(4) that no key-on has replaced
NeverKeyed(td) == td.octave = -1

\* the buffer holds the newest accepted key-ons first and unset entries after
HoldsNewestFirst(baseTone, keyed) ==
    /\ Len(baseTone) = 4
    /\ \A i \in 1..4 :
          IF i <= Len(keyed) THEN baseTone[i] = keyed[i] ELSE NeverKeyed(baseTone[i])

\* C23: in every state after initialisation the echo buffer of each channel has
\* exactly 4 entries; after k accepted keyOn calls the first min(k, 4) entries
\* of the channel's buffer are the tones of the most recent key-ons, newest
\* first, and the entries never keyed have octave = -1
C23_EchoBufferHoldsNewestKeyOns ==
    /\ Len(fm.baseTone) = 4 /\ Len(ssg.baseTone) = 4 /\ Len(adpcm.baseTone) = 4
    /\ workload \in {"FM", "SSG", "ADPCM"}
          => HoldsNewestFirst(Chan(workload).baseTone, call.keyed)

\* five key-ons accepted, the last from the echo buffer: the oldest tone has
\* left the buffer
C23_Witness ==
    /\ Len(call.keyed) = 5
    /\ call.op = "keyOn" /\ call.processed
    /\ call.keyed[1] = call.keyed[4]
    /\ call.keyed[5] # call.keyed[4]
    /\ Chan(workload).baseTone[4] = call.keyed[4]
(***************************************************************************)
(* A channel without an instrument.                                        *)
(***************************************************************************)
\* refInstFM_[inch], refInstADPCM_ are null; the SSG channel of the sessions
\* never gets an instrument
InstrumentAbsent ==
    \/ workload = "FM" /\ ~fm.hasInst
    \/ workload = "SSG"
    \/ workload = "ADPCM" /\ ~adpcm.hasInst

\* C24: on a channel whose instrument reference is absent every controller
\* operation, the FM operator-parameter controls such as setDRControlFM
\* included, completes without dereferencing the absent instrument and
\* without raising
C24_AbsentInstrumentIsTolerated ==
    InstrumentAbsent => fault = "none"
(***************************************************************************)
(* The direct register sets.                                               *)
(***************************************************************************)
Flushed == call'.n = call.n + 1 /\ call'.op = "updateRegisterStates"

\* the sets of the tick that got their value
CompletedUnits == SelectSeq(registerSetBuf, LAMBDA u : u.hasCompleted)

\* C25 as stated: the flush at the end of a tick emits at most one register
\* write per address, and that write carries the latest value queued for the
\* address
C25_FlushCoalescesPerAddress ==
    [][Flushed
        => /\ \A i, j \in 1..Len(call'.writes) :
                 call'.writes[i][1] = call'.writes[j][1] => i = j
           /\ \A i \in 1..Len(call'.writes) :
                 regs'[call'.writes[i][1]] = call'.writes[i][2]]_vars

\* C25 as the code has it: the flush emits one register write for every set of
\* the tick that got its value, in the order of the queue, repeated addresses
\* included; a trailing address without value is dropped, the queue is empty
\* afterwards, and every address written holds the value queued last for it
C25_FlushEmitsEverySetInOrder ==
    [][Flushed
        => /\ Len(call'.writes) = Len(CompletedUnits)
           /\ \A i \in 1..Len(CompletedUnits) :
                 call'.writes[i] = <<CompletedUnits[i].address, CompletedUnits[i].value>>
           /\ registerSetBuf' = <<>>
           /\ \A i \in 1..Len(CompletedUnits) :
                 (\A j \in (i + 1)..Len(CompletedUnits) :
                     CompletedUnits[j].address # CompletedUnits[i].address)
                 => regs'[CompletedUnits[i].address] = CompletedUnits[i].value]_vars

\* a flush that wrote the same address twice, with different values
C25_Witness ==
    /\ call.op = "updateRegisterStates"
    /\ Len(call.writes) = 2
    /\ call.writes[1][1] = call.writes[2][1]
    /\ call.writes[1][2] # call.writes[2][2]
    /\ regs[call.writes[2][1]] = call.writes[2][2]
(***************************************************************************)
(* The hand-off of the output history.                                     *)
(***************************************************************************)
\* C27: the render path getStreamSamples -> fillOutputHistory never waits for
\* the hand-off of the output history: wherever the rendering thread is, it has
\* a step to take whoever holds the mutex, and when the other thread holds the
\* ready snapshot the refresh is skipped (the snapshot and the mutex stay as
\* they are) and the rendering is over
C27_RenderNeverBlocks ==
    /\ [](workload = "STREAM" => ENABLED Render)
    /\ [][(stream.renderPc = "try" /\ stream.mutex = "consumer"
            /\ stream'.renderPc # stream.renderPc)
           => (/\ stream'.renderPc = "idle"
               /\ stream'.skipped
               /\ stream'.outputHistoryReady = stream.outputHistoryReady
               /\ stream'.mutex = "consumer")]_vars

\* the rendering went through while getOutputHistory held the snapshot
C27_Witness ==
    /\ stream.renderPc = "idle" /\ stream.skipped
    /\ stream.consumerPc = "copy" /\ stream.mutex = "consumer"
    /\ stream.outputHistory # stream.outputHistoryReady
    /\ stream.outputHistoryIndex = 1
(***************************************************************************)
(* The samples in the DRAM.                                                *)
(***************************************************************************)
Disjoint(r, q) == r.stop < q.start \/ q.stop < r.start

\* C26: of the storeSampleADPCM calls since the last clearSamplesADPCM, those
\* made when the DRAM was already full included, every returned pair has
\* startAddress <= stopAddress <= DRAM limit, and the ranges returned for
\* different samples are pairwise disjoint
C26_ReturnedRangesAreDisjoint ==
    /\ \A i \in 1..Len(call.returned) :
          /\ call.returned[i].start <= call.returned[i].stop
          /\ call.returned[i].stop <= dramLim
    /\ \A i, j \in 1..Len(call.returned) :
          i # j => Disjoint(call.returned[i], call.returned[j])
(***************************************************************************)
(* The iterator of a macro sequence.                                       *)
(***************************************************************************)
\* the indices the iterator of C28 is to visit, and the sentinel afterwards
LoopedVisit(i) ==
    IF i <= 18 THEN <<0, 1, 2, 3, 4, 5, 6, 3, 4, 5, 6, 3, 4, 5, 6, 7, 8, 9>>[i]
    ELSE NoOutput

HasLoop372 ==
    /\ Len(macro.it.seq.types) = 10
    /\ macro.it.seq.loops = {[begin |-> 3, end |-> 7, times |-> 2]}
    /\ macro.it.seq.release = NoRelease

\* C28: on a sequence of length 10 with the single loop region {begin = 3,
\* end = 7, times = 2} an iterator activated at front and driven by
\* advance(false) visits 0,1,2,3,4,5,6,3,4,5,6,3,4,5,6,7,8,9 and then reports
\* finished: the loop body is replayed exactly times additional times
C28_LoopReplayedTimesMore ==
    (HasLoop372 /\ macro.plain)
        => /\ \A i \in 1..Len(macro.visited) : macro.visited[i] = LoopedVisit(i)
           /\ macro.it.finished <=> Len(macro.visited) > 18

\* the iterator went through the loop and reported finished
C28_Witness ==
    /\ HasLoop372 /\ macro.plain
    /\ Len(macro.visited) = 19
    /\ macro.visited[18] = 9
    /\ macro.it.finished

\* the iterator was activated at front and no advance(true) came since
Unreleased == macro.plain /\ ~macro.released

C31_AddOutOfRangeIsNoOp ==
    [][(last'.op = "addInstrument" /\ used' # used /\ last'.inst \notin InstNums)
          => (/\ insts' = insts
              /\ pools' = pools
              /\ regardingUnedited' = regardingUnedited
              /\ fault' = fault /\ fault = "none")]_vars

\* addInstrument was called with a number out of range on a manager that
\* holds an instrument
C31_Witness ==
    /\ last.op = "addInstrument" /\ last.inst \notin InstNums
    /\ \E n \in InstNums : Exists(n)
(***************************************************************************)
(* The address registers of the ADPCM channel.                             *)
(***************************************************************************)
StartAddressRegisters == regs[258] + 256 * regs[259]
StopAddressRegisters == regs[260] + 256 * regs[261]

\* a key-on of the ADPCM channel was accepted as a fresh attack
FreshAttackADPCM ==
    /\ workload = "SAMPLE"
    /\ call.op = "keyOn" /\ call.src = "ADPCM" /\ call.processed
    /\ ~adpcm.isTonePrtm

\* C32: after a fresh-attack keyOnADPCM with the instrument whose waveform
\* lies at the stored range (start, stop), the start-address registers
\* 0x102/0x103 and the stop-address registers 0x104/0x105 hold start and stop,
\* whatever storeSampleADPCM, clearSamplesADPCM and keyOnADPCM calls came before
C32_KeyOnWritesAddresses ==
    (/\ FreshAttackADPCM
     /\ \E i \in 1..Len(call.returned) :
           call.returned[i] = [start |-> InstADPCM.start, stop |-> InstADPCM.stop])
    => (/\ StartAddressRegisters = InstADPCM.start
        /\ StopAddressRegisters = InstADPCM.stop)
(***************************************************************************)
(* The three SSG channels.                                                 *)
(***************************************************************************)
\* the tone/noise macro of a channel has yielded a step with noise
YieldedNoise ==
    /\ workload \in {"NOISE", "MIXER", "SLIDE"}
    /\ ssgs.last.op \in {"tickEvent", "keyOn"}
    /\ ssgs.last.tn.pos # -1
    /\ ssgs.last.tn.type >= 1

\* the noise period of a tone/noise command type
NoisePeriodOf(type) == IF type > 32 THEN type - 33 ELSE type - 1

\* C33: when the tone/noise macro of an SSG channel has yielded a noise or
\* tone+noise step with the noise period p, the value last written to the
\* noise-period register 0x06 after the tick is 31 - p, whatever the other
\* channels wrote before
C33_NoiseRegisterFollowsStep ==
    YieldedNoise => ssgs.regs[6] = 31 - NoisePeriodOf(ssgs.last.tn.type)

\* C34: keyOnSSG(ch) keeps the note-slide iterator of ch exactly if
\* setNoteSlideSSG(ch, speed, seminote # 0) was called on ch since the key-on
\* of ch before; calls on other channels do not change that
C34_NoteSlideSurvivesPerChannel ==
    [][(ssgs'.last.op = "keyOn" /\ call'.n = call.n + 1)
          => (ssgs'.nsIt[ssgs'.last.ch]
                  = (ssgs.nsIt[ssgs'.last.ch] /\ ssgs.slid[ssgs'.last.ch]))]_vars

BitCleared(x, flag) == (x \div flag) % 2 = 0

\* C35: for every SSG channel isTone holds exactly when the tone bit of the
\* channel in the byte last written to the mixer register 0x07 is cleared,
\* and isNoise exactly when its noise bit is cleared
C35_FlagsMirrorMixer ==
    workload \in {"NOISE", "MIXER", "SLIDE"} =>
        \A ch \in SSGChannels :
            /\ ssgs.tnSSG[ch].isTone = BitCleared(ssgs.regs[7], SSGToneFlag(ch))
            /\ ssgs.tnSSG[ch].isNoise = BitCleared(ssgs.regs[7], SSGNoiseFlag(ch))
\* the 32-byte blocks a sample of n bytes needs
BlocksOf(n) == IF n = 0 THEN 1 ELSE (n + 31) \div 32

\* C36: the range storeSampleADPCM returns for a sample of n bytes spans
\* max(1, ceil(n / 32)) blocks: no sample is cut to the DRAM that is left and
\* an empty sample takes one block
C36_RangeSpansTheSample ==
    (workload \in {"STORE", "SAMPLE"} /\ call.op = "storeSample") =>
        LET r == call.returned[Len(call.returned)]
        IN r.stop - r.start + 1 = BlocksOf(call.size)
\* the samples that the wait commands of a VGM command stream stand for:
\* 0x61 carries a 16-bit count, 0x62 is 735 and 0x63 is 882 samples, 0x7n is
\* n + 1 samples; a chip write takes three bytes
RECURSIVE WaitSamples(_)
WaitSamples(buf) ==
    IF buf = <<>> THEN 0
    ELSE IF Head(buf) = 97
    THEN buf[2] + 256 * buf[3] + WaitSamples(SubSeq(buf, 4, Len(buf)))
    ELSE IF Head(buf) = 98 THEN 735 + WaitSamples(Tail(buf))
    ELSE IF Head(buf) = 99 THEN 882 + WaitSamples(Tail(buf))
    ELSE IF Head(buf) \in 112..127 THEN Head(buf) - 111 + WaitSamples(Tail(buf))
    ELSE WaitSamples(SubSeq(buf, 4, Len(buf)))

\* C37: once getData has flushed the pending wait, the waits encoded in the
\* buffer add up to the number of samples recorded, at every interrupt rate
\* and also when a single wait is longer than 65535 samples
C37_WaitsAddUpToSampleLength ==
    vgm.last = "getData" => WaitSamples(vgm.buf) = getSampleLength(vgm)
\* the key-on values that the call made last wrote to the rhythm key
\* register 0x10: the values without the dump bit 0x80
KeyOnValuesDrum ==
    {call.writes[i][2] : i \in {j \in 1..Len(call.writes) :
                                   call.writes[j][1] = 16 /\ call.writes[j][2] < 128}}

\* C38: no key-on value written to the rhythm key register 0x10 has the bit
\* of a drum channel that is muted when the value is written
C38_NoKeyOnOfMutedDrum ==
    drum.isMute => \A value \in KeyOnValuesDrum : value % 2 = 0
\* stop() has returned and no start() has returned since
Stopped == timer.returned = "stop"

\* the owner calls stop() on a timer that is not running
StopsIdleTimer ==
    /\ timer.pc = "idle"
    /\ timer.thread = "none"
    /\ call' # call
    /\ call'.op = "stop"

\* C39: after stop() has returned the thread of the timer has terminated, so
\* the callback is not executing and is not invoked again before the next
\* start(); stop() on a timer that is not running returns without waiting
C39_StopJoinsTheThread ==
    /\ [](Stopped => timer.thread = "none")
    /\ [][(Stopped /\ timer'.returned = "stop") => timer'.invoked = timer.invoked]_vars
    /\ [][StopsIdleTimer => (timer'.pc = "idle" /\ timer'.returned = "stop")]_vars

\* stop() has returned from a timer whose callback had been invoked, the
\* owner having waited in join()
C39_Witness ==
    /\ Stopped
    /\ timer.invoked > 0
    /\ call.op = "stop"
    /\ timer.thread = "none"
\* the pitch of a tone in pitch units, as checkPortamento compares them
PitchOf(tone) ==
    octaveAndNoteToNoteNumber(tone.octave, tone.note) * SEMINOTE_PITCH + tone.pitch

\* how far the key tone of the FM channel is below the newest tone of the
\* echo buffer
ToTarget(c) == PitchOf(c.baseTone[1]) - PitchOf(c.keyTone)

\* tone portamento is active on the FM channel
TonePortamentoActive ==
    /\ workload = "PORTAMENTO"
    /\ fm.prtm > 0
    /\ fm.isTonePrtm
    /\ fm.hasKeyOnBefore
    /\ (fm.arpIt = NoIt \/ fm.arpIt.pos = NoOutput)

\* a tickEvent call on the FM channel
TicksPortamento == call'.op = "tickEvent" /\ call'.n = call.n

\* a tick moves the key tone by at most the depth, towards the target and not
\* past it; on the target it stays
TickApproachesTarget ==
    [][(TonePortamentoActive /\ TicksPortamento) =>
          (/\ PitchOf(fm'.keyTone) - PitchOf(fm.keyTone) \in (0 - fm.prtm)..fm.prtm
           /\ ToTarget(fm) >= 0 => ToTarget(fm') \in 0..ToTarget(fm)
           /\ ToTarget(fm) <= 0 => ToTarget(fm') \in ToTarget(fm)..0)]_vars

\* a tick that runs the sequences moves a key tone that is off the target
TickMovesKeyTone ==
    [][(/\ TonePortamentoActive
        /\ TicksPortamento
        /\ ~fm.isMute
        /\ ~fm.hasPreSetTickEvent
        /\ ToTarget(fm) # 0) => PitchOf(fm'.keyTone) # PitchOf(fm.keyTone)]_vars

\* C40 as stated: with tone portamento active, the ticks move the pitch of the
\* channel towards the pitch of the newest tone of the echo buffer by at most
\* the depth a tick and not past it, and after finitely many ticks the pitch
\* is the target and stays there
C40_PortamentoReachesTarget ==
    /\ TickApproachesTarget
    /\ TonePortamentoActive ~> (ToTarget(fm) = 0 \/ ~TonePortamentoActive)

\* C40, amended: the same on a channel that is not muted; the ticks of a muted
\* channel leave the key tone where it is
C40_UnmutedPortamentoReachesTarget ==
    /\ TickApproachesTarget
    /\ TickMovesKeyTone
    /\ (TonePortamentoActive /\ ~fm.isMute)
           ~> (ToTarget(fm) = 0 \/ ~TonePortamentoActive \/ fm.isMute)

\* the key tone has arrived on the target by the last step of a portamento
\* of depth 5, which is shorter than the depth
C40_Witness ==
    /\ TonePortamentoActive
    /\ ~fm.isMute
    /\ call.op = "tickEvent"
    /\ fm.prtm = 5
    /\ ToTarget(fm) = 0
    /\ fm.keyTone.pitch # 0
====
